---- MODULE Spec2Model ----
(***************************************************************************)
(* Payment orchestration core of level42: WalletManager (wallet.py) and    *)
(* PaymentProcessor (payments.py).  Every action is one complete call of   *)
(* a public method; what the network provider, the HTTP service and the    *)
(* audit database answer during that call is chosen with \E.               *)
(*                                                                         *)
(* Amounts are integers (smallest currency unit).  A Python string that    *)
(* the code only inspects is modelled by what the code inspects:           *)
(*   - an error message is the set of keywords it contains,                *)
(*   - an address is [pfx, len, pad, id] (starts with "0x", length of the  *)
(*     stripped text, surrounding whitespace, which address it is),        *)
(*   - a transaction hash is [failed, ref] (starts with "FAILED", text).   *)
(***************************************************************************)
EXTENDS Integers, Sequences, FiniteSets, TLC

\* ---------------------------------------------------------------- bounds
MaxBalance == 5
\* PaymentProcessor.payment_threshold as configured (the attribute is set to
\* 10 at construction and is assignable); the queue is explored up to one
\* entry beyond it.
payment_threshold == 3
MaxQueue == payment_threshold + 1
\* The swarm's capacity (SwarmConfig.max_agents, 10 by default) and the
\* most that is recorded as spent on tools altogether; how far the
\* tracked spends move from zero altogether.
max_agents == 2
MaxSpend == 1
MaxSpread == 2

\* ------------------------------------------------------ program constants
max_balance_retries == 3
DefaultMaxAgents == 10
max_retries == 3
AddrLen == 42

\* ------------------------------------------------------------ input sets
BadAmounts == {-1, 0}
TxRefs == {"0xabc", "0xdef"}
Tools == {"tool"}

\* Keyword sets of the error messages a provider can raise.
ErrMsgs == { {}, {"connection"}, {"insufficient"}, {"nonce"} }

NetWords == {"network", "connection", "timeout"}
TxWords == {"transaction", "gas", "nonce"}

Addr(i) == [pfx |-> TRUE, len |-> AddrLen, pad |-> 0, id |-> i]
ValidAddrs == {Addr(1), Addr(2)}
EmptyAddr == [pfx |-> FALSE, len |-> 0, pad |-> 0, id |-> 0]
NoPrefixAddr == [pfx |-> FALSE, len |-> AddrLen, pad |-> 0, id |-> 1]
ShortAddr == [pfx |-> TRUE, len |-> AddrLen - 1, pad |-> 0, id |-> 1]
BadAddrs == {EmptyAddr, NoPrefixAddr, ShortAddr}
PaddedAddr == [pfx |-> TRUE, len |-> AddrLen, pad |-> 1, id |-> 2]

\* str.strip(): drops the surrounding whitespace.
Strip(a) == [a EXCEPT !.pad = 0]
\* len(s) and s.startswith('0x'), "not s" (empty string).
StrLen(a) == a.len + a.pad
StartsWith0x(a) == a.pfx
IsEmptyStr(a) == StrLen(a) = 0

\* ------------------------------------------------------ transaction hashes
OkHash(r) == [failed |-> FALSE, ref |-> r]
FailedHash == [failed |-> TRUE, ref |-> "FAILED: reason"]
EmptyHash == [failed |-> FALSE, ref |-> ""]
\* "tx_hash and not tx_hash.startswith('FAILED')"
HashSucceededIgnoresMarker(h) == h.ref # ""
HashSucceeded(h) == h.ref # "" /\ ~h.failed

\* -------------------------------------------------------------- exceptions
NoExc == [type |-> "none", msg |-> {}, required |-> 0, available |-> 0,
          retry_count |-> 0]
Exc(t, m) == [type |-> t, msg |-> m, required |-> 0, available |-> 0,
              retry_count |-> 0]
InsufficientFundsError(req, avail, m) ==
    [type |-> "InsufficientFundsError", msg |-> m, required |-> req,
     available |-> avail, retry_count |-> 0]
\* NetworkError.__init__ prefixes "Network error after r/m retries: ".
NetworkError(m, rc) ==
    [type |-> "NetworkError", msg |-> {"network"} \cup m, required |-> 0,
     available |-> 0, retry_count |-> rc]

Raised(r) == r.exc.type # "none"

\* ----------------------------------------------------- provider outcomes
\* One balance query of the provider: the balance, or RuntimeError
\* "Failed to get balance: <e>".
BalOk == [ok |-> TRUE, msg |-> {}]
BalFail(m) == [ok |-> FALSE, msg |-> {"balance"} \cup m]

\* The answers to the (at most three) balance queries of one retry loop:
\* k failures with message m, then success.
BalSeq(k, m) == [i \in 1..max_balance_retries |->
                    IF i <= k THEN BalFail(m) ELSE BalOk]

\* One send_payment of the provider: a transaction hash, or an error.
SendOk(r) == [ok |-> TRUE, msg |-> {}, ref |-> r]
SendFail(m) == [ok |-> FALSE, msg |-> m, ref |-> ""]
SendOuts == {SendOk(r) : r \in TxRefs} \cup {SendFail(m) : m \in ErrMsgs}

\* ------------------------------------------------------------ sequences
RECURSIVE SumAmounts(_)
SumAmounts(s) == IF s = <<>> THEN 0 ELSE Head(s).amount + SumAmounts(Tail(s))

RECURSIVE SeqsUpTo(_, _)
SeqsUpTo(S, n) ==
    IF n = 0 THEN {<<>>}
    ELSE LET P == SeqsUpTo(S, n - 1)
         IN  P \cup {Append(p, x) : p \in {q \in P : Len(q) = n - 1}, x \in S}

SeqsOfLen(S, n) == {s \in SeqsUpTo(S, n) : Len(s) = n}

\* ===================================================== WalletManager =====

\* "if attempt == max_balance_retries - 1: raise RuntimeError"
LastBalanceAttemptEarly(attempt) == attempt = max_balance_retries - 2
LastBalanceAttempt(attempt) == attempt = max_balance_retries - 1

\* The balance retry loop of make_payment and batch_payments.
RECURSIVE BalanceRetryLoop(_, _, _, _)
BalanceRetryLoop(attempt, outs, bal, calls) ==
    LET o == outs[attempt + 1]
        c == Append(calls, "get_balance")
    IN  IF o.ok
        THEN [ok |-> TRUE, balance |-> bal, msg |-> {}, pcalls |-> c]
        ELSE IF LastBalanceAttempt(attempt)
             THEN [ok |-> FALSE, balance |-> 0,
                   msg |-> {"balance"} \cup o.msg, pcalls |-> c]
             ELSE BalanceRetryLoop(attempt + 1, outs, bal, c)

\* Network names as callers write them, and str.lower().
NetworkNames == {"base", "Base", "solana", "SOLANA", "polygon"}
Lower(n) == IF n = "Base" THEN "base" ELSE IF n = "SOLANA" THEN "solana"
            ELSE n

\* The provider object built for a (lower-case) network name.
Provider(n) == IF n = "base" THEN "BaseNetworkProvider"
               ELSE "SolanaNetworkProvider"

\* WalletManager._get_network_provider(network): the provider, or the
\* ValueError for an unsupported network or a missing solana package, or
\* whatever the provider's constructor raises.
get_network_provider(n, env) ==
    LET l == Lower(n)
    IN  IF l = "base"
        THEN IF env.ctor THEN [exc |-> NoExc, provider |-> Provider(l)]
             ELSE [exc |-> Exc("ConnectionError", {"connection"}),
                   provider |-> ""]
        ELSE IF l = "solana"
        THEN IF ~env.solana
             THEN [exc |-> Exc("ValueError", {"solana"}), provider |-> ""]
             ELSE IF env.ctor
             THEN [exc |-> NoExc, provider |-> Provider(l)]
             ELSE [exc |-> Exc("ConnectionError", {"connection"}),
                   provider |-> ""]
        ELSE [exc |-> Exc("ValueError", {"unsupported"}), provider |-> ""]

\* "if network.lower() == self.network.lower(): return"
SameNetworkCaseSensitive(a, b) == a = b
SameNetwork(a, b) == Lower(a) = Lower(b)

\* WalletManager.switch_network(name) of a wallet on network net with
\* provider prov; env = [solana, ctor, ping, ledger]: whether the solana
\* package imports, whether the provider's constructor works, the new
\* provider's answer to the balance query, the balance held there.
switch_network(net, prov, bal, name, env) ==
    LET same == [exc |-> NoExc, network |-> net, provider |-> prov,
                 bal |-> bal, pcalls |-> <<>>]
    IN  IF SameNetwork(name, net) THEN same
        ELSE
        LET new_provider == get_network_provider(name, env)
        IN  IF new_provider.exc.type # "none"
            THEN [same EXCEPT !.exc = new_provider.exc]
            ELSE IF ~env.ping.ok
            THEN [same EXCEPT
                    !.exc = Exc("ConnectionError",
                                {"connect"} \cup env.ping.msg),
                    !.pcalls = <<new_provider.provider, "get_balance">>]
            ELSE [exc |-> NoExc, network |-> Lower(name),
                  provider |-> new_provider.provider, bal |-> env.ledger,
                  pcalls |-> <<new_provider.provider, "get_balance">>]

\* WalletManager.get_balance(): "return self.network_provider.get_balance(
\* self.address)"; env.balq[1] is the provider's answer.
get_balanceRetrying(bal, env) ==
    LET chk == BalanceRetryLoop(0, env.balq, bal, <<>>)
    IN  [exc |-> IF chk.ok THEN NoExc ELSE Exc("RuntimeError", chk.msg),
         ret |-> IF chk.ok THEN chk.balance ELSE -1, pcalls |-> chk.pcalls]
get_balance(bal, env) ==
    LET o == env.balq[1]
    IN  [exc |-> IF o.ok THEN NoExc ELSE Exc("RuntimeError", o.msg),
         ret |-> IF o.ok THEN bal ELSE -1, pcalls |-> <<"get_balance">>]

\* "Insufficient balance: {current_balance} USDC, need {amount} USDC"
InsufficientBalance(current_balance, amount) ==
    [type |-> "ValueError", msg |-> {"insufficient", "balance"},
     required |-> amount, available |-> current_balance, retry_count |-> 0]
\* "Insufficient balance for payment: {e}": no balance figure (-1).
InsufficientForPayment(m) ==
    [type |-> "ValueError", msg |-> {"insufficient", "balance"} \cup m,
     required |-> -1, available |-> -1, retry_count |-> 0]

\* "if current_balance < amount: raise ValueError"
FundsShortOrEqual(current_balance, amount) == current_balance <= amount
FundsShort(current_balance, amount) == current_balance < amount

\* WalletManager.make_payment(amount, recipient) against provider balance
\* bal; env = [balq, send] are the provider's answers.
make_payment(amount, recipient, bal, env) ==
    IF amount <= 0
    THEN [exc |-> Exc("ValueError", {"positive"}), ret |-> EmptyHash,
          bal |-> bal, pcalls |-> <<>>]
    ELSE
    LET chk == BalanceRetryLoop(0, env.balq, bal, <<>>)
    IN  IF ~chk.ok
        THEN [exc |-> Exc("RuntimeError", chk.msg), ret |-> EmptyHash,
              bal |-> bal, pcalls |-> chk.pcalls]
        ELSE IF FundsShort(chk.balance, amount)
        THEN [exc |-> InsufficientBalance(chk.balance, amount),
              ret |-> EmptyHash, bal |-> bal, pcalls |-> chk.pcalls]
        ELSE
        LET sent == Append(chk.pcalls, "send_payment")
        IN  IF env.send.ok
            THEN [exc |-> NoExc, ret |-> OkHash(env.send.ref),
                  bal |-> bal - amount, pcalls |-> sent]
            ELSE IF "insufficient" \in env.send.msg \/ "balance" \in env.send.msg
            THEN \* the balance is queried again, but the bare "except:"
                 \* around the query also catches the ValueError that
                 \* carries its answer
                 [exc |-> InsufficientForPayment(env.send.msg),
                  ret |-> EmptyHash, bal |-> bal,
                  pcalls |-> Append(sent, "get_balance")]
            ELSE [exc |-> Exc("RuntimeError", env.send.msg),
                  ret |-> EmptyHash, bal |-> bal, pcalls |-> sent]

\* The provider's answers that matter to one make_payment: the send is
\* reached only when a balance query succeeds.
MakePaymentEnvs ==
    {[balq |-> BalSeq(0, {}), send |-> s] : s \in SendOuts}
    \cup {[balq |-> BalSeq(k, {"connection"}), send |-> SendOk("0xabc")] :
             k \in 1..(max_balance_retries - 1)}
    \cup {[balq |-> BalSeq(max_balance_retries, m),
           send |-> SendOk("0xabc")] : m \in ErrMsgs}


\* WalletManager.batch_payments validates every entry before anything else.
FirstInvalidHeadOnly(payments, i) ==
    IF payments[1].amount <= 0 \/ IsEmptyStr(payments[1].recipient) THEN 1
    ELSE 0
RECURSIVE FirstInvalid(_, _)
FirstInvalid(payments, i) ==
    IF i > Len(payments) THEN 0
    ELSE IF payments[i].amount <= 0 \/ IsEmptyStr(payments[i].recipient) THEN i
    ELSE FirstInvalid(payments, i + 1)

\* Sum of the amounts the provider actually transferred in a batch.
RECURSIVE SentAmount(_, _)
SentAmount(payments, hashes) ==
    IF payments = <<>> \/ hashes = <<>> THEN 0
    ELSE (IF HashSucceeded(Head(hashes)) THEN Head(payments).amount ELSE 0)
         + SentAmount(Tail(payments), Tail(hashes))

\* The provider's batch_payments: raises, or returns one entry per payment.
BatchRaise(m) == [raised |-> TRUE, msg |-> m, res |-> <<>>]
BatchReturn(res) == [raised |-> FALSE, msg |-> {}, res |-> res]

\* WalletManager.batch_payments(payments); env = [balq, batch].
batch_payments(payments, bal, env) ==
    IF payments = <<>>
    THEN [exc |-> NoExc, ret |-> <<>>, bal |-> bal, pcalls |-> <<>>]
    ELSE IF FirstInvalid(payments, 1) # 0
    THEN [exc |-> Exc("ValueError", {"invalid"}), ret |-> <<>>, bal |-> bal,
          pcalls |-> <<>>]
    ELSE
    LET total_amount == SumAmounts(payments)
        chk == BalanceRetryLoop(0, env.balq, bal, <<>>)
    IN  IF ~chk.ok
        THEN [exc |-> Exc("RuntimeError", chk.msg), ret |-> <<>>,
              bal |-> bal, pcalls |-> chk.pcalls]
        ELSE IF chk.balance < total_amount
        THEN [exc |-> InsufficientBalance(chk.balance, total_amount),
              ret |-> <<>>, bal |-> bal, pcalls |-> chk.pcalls]
        ELSE
        LET sent == Append(chk.pcalls, "batch_payments")
        IN  IF ~env.batch.raised
            THEN [exc |-> NoExc, ret |-> env.batch.res,
                  bal |-> bal - SentAmount(payments, env.batch.res),
                  pcalls |-> sent]
            ELSE IF "insufficient" \in env.batch.msg
                    \/ "balance" \in env.batch.msg
            THEN [exc |-> InsufficientForPayment(env.batch.msg),
                  ret |-> <<>>, bal |-> bal,
                  pcalls |-> Append(sent, "get_balance")]
            ELSE [exc |-> Exc("RuntimeError", env.batch.msg),
                  ret |-> <<>>, bal |-> bal, pcalls |-> sent]

\* =================================================== PaymentProcessor =====

\* A call of a wallet_manager method made by the processor.
WCall(fn, items) == [fn |-> fn, items |-> items]
Item(p) == [amount |-> p.amount, recipient |-> p.recipient]

\* Payment dataclass (wallet.py); the timestamp is not modelled.
Payment(amount, recipient, tool_name, status, tx_hash) ==
    [amount |-> amount, recipient |-> recipient, tool_name |-> tool_name,
     status |-> status, tx_hash |-> tx_hash]

\* _log_payments: the rows reach the table unless sqlite raises, which is
\* swallowed.
LogPayments(logged, payments, dbok) ==
    IF payments = <<>> \/ ~dbok THEN logged ELSE logged \o payments

\* What leaves _log_payments as an exception: nothing, "except sqlite3.Error"
\* only logs the failure.
LogErrorPropagates(payments, dbok) ==
    IF payments = <<>> \/ dbok THEN NoExc
    ELSE Exc("sqlite3.Error", {"database"})
LogError(payments, dbok) == NoExc

\* An exception raised inside an except block replaces the one the block
\* was about to raise.
RaiseAfter(inner, e) == IF inner.type # "none" THEN inner ELSE e

NoBatch == [called |-> FALSE, raised |-> FALSE, exc |-> NoExc,
            hashes |-> <<>>]

\* The response handle_402_response returns: the one it was given, or the
\* answer to the attempt-th replay.
NoReply == [kind |-> "none", status |-> 0, attempt |-> 0]
OriginalReply(st) == [kind |-> "original", status |-> st, attempt |-> 0]
ReplayReply(st, k) == [kind |-> "replay", status |-> st, attempt |-> k]

\* What one processor call did; the fields every call fills in.
Result(q, bal) ==
    [queue |-> q, bal |-> bal, exc |-> NoExc, flag |-> FALSE,
     hash |-> EmptyHash, wcalls |-> <<>>, pcalls |-> <<>>, logged |-> <<>>,
     flushes |-> 0, batch |-> NoBatch, seen |-> -1, payments |-> <<>>,
     requests |-> <<>>, reply |-> NoReply]

\* What leaves the loop body of _retry_failed_payments when make_payment
\* raised e: nothing, "except Exception as e" marks the payment failed.
RetryErrorEscapes(e) == e
RetryError(e) == NoExc

\* _retry_failed_payments: one make_payment per failed payment, every
\* exception swallowed.  acc = [payments, bal, wcalls, pcalls, exc].
RECURSIVE RetryFailed(_, _, _)
RetryFailed(failed, envs, acc) ==
    IF failed = <<>> THEN acc
    ELSE
    LET p == Head(failed)
        r == make_payment(p.amount, p.recipient, acc.bal, Head(envs))
        q == IF Raised(r) THEN [p EXCEPT !.status = "failed"]
             ELSE [p EXCEPT !.status = "completed", !.tx_hash = r.ret]
        wc == Append(acc.wcalls, WCall("make_payment", <<Item(p)>>))
    IN  IF RetryError(r.exc).type # "none"
        THEN [acc EXCEPT !.bal = r.bal, !.wcalls = wc,
                         !.pcalls = acc.pcalls \o r.pcalls,
                         !.exc = RetryError(r.exc)]
        ELSE RetryFailed(Tail(failed), Tail(envs),
                         [payments |-> Append(acc.payments, q),
                          bal |-> r.bal,
                          wcalls |-> wc,
                          pcalls |-> acc.pcalls \o r.pcalls,
                          exc |-> acc.exc])

\* The payment list once the failed entries carry their retry's outcome
\* (the retry updates the Payment objects of the list in place).
RECURSIVE Merge(_, _)
Merge(marked, retried) ==
    IF marked = <<>> THEN <<>>
    ELSE IF Head(marked).status = "failed" /\ retried # <<>>
         THEN <<Head(retried)>> \o Merge(Tail(marked), Tail(retried))
         ELSE <<Head(marked)>> \o Merge(Tail(marked), retried)

\* The payments (and the retry answers) at the positions marked failed.
RECURSIVE SelectFailed(_, _)
SelectFailed(payments, xs) ==
    IF payments = <<>> THEN <<>>
    ELSE IF Head(payments).status = "failed"
         THEN <<Head(xs)>> \o SelectFailed(Tail(payments), Tail(xs))
         ELSE SelectFailed(Tail(payments), Tail(xs))

\* "if current_balance < total_amount: raise InsufficientFundsError".
BatchCoveredNoCheck(current_balance, total_amount) == TRUE
BatchCovered(current_balance, total_amount) ==
    ~(current_balance < total_amount)

\* self.deferred_payments.clear()
ClearedKeepsLast(q) == IF q = <<>> THEN q ELSE <<q[Len(q)]>>
Cleared(q) == <<>>

\* "self.deferred_payments = original_deferred"
RolledBackLosingOne(original_deferred) == Tail(original_deferred)
RolledBack(original_deferred) == original_deferred

\* "if failed_payments and successful_payments > 0".
ShouldRetryNever(failed_payments, successful_payments) == FALSE
ShouldRetry(failed_payments, successful_payments) ==
    failed_payments # <<>> /\ successful_payments > 0

\* success_rate = successful_payments / len(payments); the value returned
\* is "success_rate == 1.0".
AllSucceededIfAny(successful_payments, n) == successful_payments > 0
AllSucceeded(successful_payments, n) == successful_payments = n

\* What process_deferred_payments raises when wallet_manager.batch_payments
\* raised e.
BatchErrorUncategorized(e, total_amount, current_balance) ==
    Exc("PaymentError", e.msg)
BatchErrorRaised(e, total_amount, current_balance) ==
    IF e.type = "ValueError"
    THEN IF "insufficient" \in e.msg
         THEN InsufficientFundsError(total_amount, current_balance,
                                     {"insufficient"} \cup e.msg)
         ELSE Exc("PaymentError", e.msg)
    ELSE IF e.msg \cap NetWords # {}
         THEN NetworkError(e.msg, 0)
         ELSE Exc("PaymentError", e.msg)

\* PaymentProcessor.process_deferred_payments.
\* env = [gb, drift, balq, batch, retry, db]: the answer to the processor's
\* balance query, what another spender takes before the wallet's own check,
\* the wallet's balance queries, the provider's batch answer, the provider's
\* answers during the individual retries, and whether each audit write works.
process_deferred_payments(q, bal, env) ==
    IF q = <<>> THEN [Result(q, bal) EXCEPT !.flag = TRUE, !.flushes = 1]
    ELSE
    LET total_amount == SumAmounts(q)
        R == [Result(q, bal) EXCEPT !.flushes = 1,
                 !.wcalls = <<WCall("get_balance", <<>>)>>,
                 !.pcalls = <<"get_balance">>]
    IN  IF ~env.gb.ok
        THEN [R EXCEPT !.exc = NetworkError({"balance"} \cup env.gb.msg, 0)]
        ELSE IF ~BatchCovered(bal, total_amount)
        THEN [R EXCEPT !.seen = bal,
                 !.exc = InsufficientFundsError(total_amount, bal,
                                                {"insufficient"})]
        ELSE
        LET payments == [i \in 1..Len(q) |->
                            Payment(q[i].amount, q[i].recipient,
                                    q[i].tool_name, "pending", EmptyHash)]
            original_deferred == q
            bal1 == bal - env.drift
            b == batch_payments(payments, bal1, env)
            wc == Append(R.wcalls, WCall("batch_payments",
                                         [i \in 1..Len(q) |-> Item(q[i])]))
            R1 == [R EXCEPT !.seen = bal, !.bal = b.bal, !.wcalls = wc,
                      !.pcalls = R.pcalls \o b.pcalls]
            allFailed == [i \in 1..Len(q) |->
                             [payments[i] EXCEPT !.status = "failed"]]
        IN  IF Raised(b)
            THEN \* rollback
                 [R1 EXCEPT
                    !.queue = RolledBack(original_deferred),
                    !.batch = [called |-> TRUE, raised |-> TRUE,
                               exc |-> b.exc, hashes |-> <<>>],
                    !.payments = allFailed,
                    !.logged = LogPayments(<<>>, allFailed, env.db[1]),
                    !.exc = RaiseAfter(LogError(allFailed, env.db[1]),
                               BatchErrorRaised(b.exc, total_amount, bal))]
            ELSE
            LET tx_hashes == b.ret
                marked == [i \in 1..Len(q) |->
                    IF HashSucceeded(tx_hashes[i])
                    THEN [payments[i] EXCEPT !.tx_hash = tx_hashes[i],
                                             !.status = "completed"]
                    ELSE [payments[i] EXCEPT !.tx_hash = tx_hashes[i],
                                             !.status = "failed"]]
                failed_payments == SelectFailed(marked, marked)
                successful_payments == Len(q) - Len(failed_payments)
                log1 == LogPayments(<<>>, marked, env.db[1])
                R2 == [R1 EXCEPT
                         !.queue = Cleared(q),
                         !.batch = [called |-> TRUE, raised |-> FALSE,
                                    exc |-> NoExc, hashes |-> tx_hashes],
                         !.payments = marked,
                         !.logged = log1,
                         !.flag = AllSucceeded(successful_payments, Len(q))]
                \* "except Exception" after an error e past the batch call
                Handler(X, e) ==
                    LET ps == [i \in 1..Len(q) |->
                                  [X.payments[i] EXCEPT !.status = "failed"]]
                    IN  [X EXCEPT
                           !.queue = RolledBack(original_deferred),
                           !.flag = FALSE,
                           !.payments = ps,
                           !.logged = LogPayments(X.logged, ps, env.db[2]),
                           !.exc = RaiseAfter(LogError(ps, env.db[2]),
                                      BatchErrorRaised(e, total_amount, bal))]
            IN  IF LogError(marked, env.db[1]).type # "none"
                THEN Handler(R2, LogError(marked, env.db[1]))
                ELSE IF ShouldRetry(failed_payments, successful_payments)
                THEN LET rt == RetryFailed(failed_payments,
                                   SelectFailed(marked, env.retry),
                                   [payments |-> <<>>, bal |-> R2.bal,
                                    wcalls |-> R2.wcalls,
                                    pcalls |-> R2.pcalls, exc |-> NoExc])
                         R3 == [R2 EXCEPT !.bal = rt.bal,
                                  !.wcalls = rt.wcalls,
                                  !.pcalls = rt.pcalls,
                                  !.payments = Merge(marked, rt.payments),
                                  !.logged = LogPayments(log1, rt.payments,
                                                         env.db[2])]
                     IN  IF rt.exc.type # "none"
                         THEN Handler([R3 EXCEPT !.logged = log1], rt.exc)
                         ELSE IF LogError(rt.payments, env.db[2]).type
                                   # "none"
                         THEN Handler(R3, LogError(rt.payments, env.db[2]))
                         ELSE R3
                ELSE R2


\* "if amount <= 0: raise ValueError"
InvalidAmountZeroOk(amount) == amount < 0
InvalidAmount(amount) == amount <= 0

\* "if len(self.deferred_payments) >= self.payment_threshold"
ThresholdExceeded(n) == n > payment_threshold
ThresholdReached(n) == n >= payment_threshold

\* "len(self.deferred_payments)" in that test, read after the append.
QueueLengthBeforeAppend(q) == Len(q) - 1
QueueLength(q) == Len(q)

\* "self.process_deferred_payments()" as add_deferred_payment's last
\* statement, outside any try block: whatever it raises leaves the method.
RaisedBehindTry(r) == [r EXCEPT !.exc = NoExc]
RaisedOnward(r) == r

\* PaymentProcessor.add_deferred_payment.
add_deferred_payment(q, bal, amount, recipient, tool_name, env) ==
    IF InvalidAmount(amount)
    THEN [Result(q, bal) EXCEPT !.exc = Exc("ValueError", {"positive"})]
    ELSE IF IsEmptyStr(recipient) \/ ~StartsWith0x(recipient)
            \/ StrLen(recipient) # AddrLen
    THEN [Result(q, bal) EXCEPT !.exc = Exc("ValueError", {"recipient"})]
    ELSE
    LET payment_data == [amount |-> amount, recipient |-> recipient,
                         tool_name |-> tool_name]
        q1 == Append(q, payment_data)
    IN  IF ThresholdReached(QueueLength(q1))
        THEN RaisedOnward(process_deferred_payments(q1, bal, env))
        ELSE Result(q1, bal)

\* ------------------------------------------------- HTTP 402 handling
\* A header value: absent, the empty string, text that is no number, or a
\* number; an address header: absent or an address string.
HAbsent == [k |-> "absent", v |-> 0]
HEmpty == [k |-> "empty", v |-> 0]
HText == [k |-> "text", v |-> 0]
HNum(v) == [k |-> "num", v |-> v]
AAbsent == [k |-> "absent", a |-> EmptyAddr]
AStr(a) == [k |-> "str", a |-> a]

\* Python truthiness of headers.get(name), and "x or y".
Truthy(h) == h.k \notin {"absent", "empty"}
TruthyAddr(h) == h.k = "str" /\ ~IsEmptyStr(h.a)
PyOr(x, y) == IF Truthy(x) THEN x ELSE y
PyOrAddr(x, y) == IF TruthyAddr(x) THEN x ELSE y

\* PaymentProcessor._parse_payment_headers: ok = FALSE is ValueError.
parse_payment_headers(response) ==
    LET amount_header == PyOr(response.xamount, response.amount)
        recipient_header == PyOrAddr(response.xaddress, response.address)
        bad == [ok |-> FALSE, amount |-> 0, recipient |-> EmptyAddr,
                tool_name |-> "unknown"]
    IN  IF ~Truthy(amount_header) THEN bad
        ELSE IF ~TruthyAddr(recipient_header) THEN bad
        ELSE IF amount_header.k # "num" THEN bad      \* float() raises
        ELSE IF amount_header.v <= 0 THEN bad
        ELSE LET recipient == Strip(recipient_header.a)
             IN  IF ~StartsWith0x(recipient) \/ StrLen(recipient) # AddrLen
                 THEN bad
                 ELSE [ok |-> TRUE, amount |-> amount_header.v,
                       recipient |-> recipient,
                       tool_name |-> IF response.xtool # "" THEN response.xtool
                                     ELSE "unknown"]

\* retry_headers: the original headers with both proof headers set.
RetryHeadersXOnly(orig, tx_hash) ==
    [h \in DOMAIN orig \cup {"X-Payment-Hash"} |->
        IF h = "X-Payment-Hash" THEN tx_hash.ref ELSE orig[h]]
RetryHeaders(orig, tx_hash) ==
    [h \in DOMAIN orig \cup {"X-Payment-Hash", "Payment-Hash"} |->
        IF h \in {"X-Payment-Hash", "Payment-Hash"} THEN tx_hash.ref
        ELSE orig[h]]

\* What one replay can meet: a response with a status code, or an exception
\* of requests (Timeout, ConnectionError, another RequestException).
ReplayStatuses == {"200", "500", "402"}
StatusCode(o) == IF o = "200" THEN 200 ELSE IF o = "500" THEN 500 ELSE 402

\* "if retry_response.status_code != 402: return retry_response"
ReplayAcceptedOnlyOk(status_code) == status_code = 200
ReplayAccepted(status_code) == status_code # 402

\* PaymentProcessor._retry_request_with_payment: outs[k] is what the k-th
\* replay meets ("200", "500", "402", "timeout", "connection", "request").
RECURSIVE RetryRequestLoop(_, _, _, _)
RetryRequestLoop(attempt, outs, headers, sent) ==
    IF attempt = max_retries
    THEN [exc |-> Exc("PaymentError", {}), reply |-> NoReply,
          requests |-> sent]
    ELSE
    LET o == outs[attempt + 1]
        s1 == Append(sent, [headers |-> headers, met |-> o])
        last == attempt = max_retries - 1
    IN  IF o \in ReplayStatuses
        THEN IF ReplayAccepted(StatusCode(o))
             THEN [exc |-> NoExc,
                   reply |-> ReplayReply(StatusCode(o), attempt + 1),
                   requests |-> s1]
             ELSE RetryRequestLoop(attempt + 1, outs, headers, s1)
        ELSE IF last
        THEN [exc |-> NetworkError(IF o = "request" THEN {} ELSE {o},
                                   attempt + 1),
              reply |-> NoReply, requests |-> s1]
        ELSE RetryRequestLoop(attempt + 1, outs, headers, s1)

retry_request_with_payment(original_headers, tx_hash, outs) ==
    RetryRequestLoop(0, outs, RetryHeaders(original_headers, tx_hash), <<>>)

\* "if current_balance < payment_info['amount']: raise InsufficientFundsError"
ChargeCoveredNoCheck(current_balance, amount) == TRUE
ChargeCovered(current_balance, amount) == ~(current_balance < amount)

\* "except Exception as e: raise NetworkError" around the balance query of
\* handle_402_response.
BalanceQueryFailedSwallowed(gb) == FALSE
BalanceQueryFailed(gb) == ~gb.ok

\* The error handle_402_response raises from "except Exception as e".
Categorized(e) ==
    IF e.msg \cap NetWords # {} THEN NetworkError(e.msg, 0)
    ELSE IF e.msg \cap TxWords # {} THEN Exc("TransactionError", e.msg)
    ELSE Exc("PaymentError", e.msg)

\* PaymentProcessor.handle_402_response.
\* env = [gb, drift, mp, db, replay]: the answer to the processor's balance
\* query, what another spender takes before the wallet's own check, the
\* provider's answers inside make_payment, whether each audit write works,
\* and what the replays meet.
handle_402_response(response, q, bal, env) ==
    IF response.status # 402
    THEN [Result(q, bal) EXCEPT !.reply = OriginalReply(response.status)]
    ELSE
    LET payment_info == parse_payment_headers(response)
    IN  IF ~payment_info.ok
        THEN [Result(q, bal) EXCEPT
                 !.exc = Exc("PaymentValidationError", {"invalid"})]
        ELSE
        LET R == [Result(q, bal) EXCEPT
                     !.wcalls = <<WCall("get_balance", <<>>)>>,
                     !.pcalls = <<"get_balance">>]
        IN  IF BalanceQueryFailed(env.gb)
            THEN [R EXCEPT !.exc = NetworkError(env.gb.msg, 0)]
            ELSE IF ~ChargeCovered(bal, payment_info.amount)
            THEN [R EXCEPT !.seen = bal,
                     !.exc = InsufficientFundsError(payment_info.amount, bal,
                                                    {"insufficient"})]
            ELSE
            LET payment == Payment(payment_info.amount,
                                   payment_info.recipient,
                                   payment_info.tool_name, "pending",
                                   EmptyHash)
                current_balance == bal
                mp == make_payment(payment_info.amount,
                                   payment_info.recipient,
                                   bal - env.drift, env.mp)
                R1 == [R EXCEPT !.seen = bal, !.bal = mp.bal,
                          !.wcalls = Append(R.wcalls,
                              WCall("make_payment", <<Item(payment)>>)),
                          !.pcalls = R.pcalls \o mp.pcalls]
                failed == [payment EXCEPT !.status = "failed"]
            IN  IF Raised(mp)
                THEN [R1 EXCEPT
                        !.payments = <<failed>>,
                        !.logged = LogPayments(<<>>, <<failed>>, env.db[1]),
                        !.exc = RaiseAfter(
                          LogError(<<failed>>, env.db[1]),
                          IF mp.exc.type = "ValueError"
                          THEN IF "insufficient" \in mp.exc.msg
                               THEN InsufficientFundsError(
                                        payment_info.amount, current_balance,
                                        mp.exc.msg)
                               ELSE Exc("PaymentValidationError", mp.exc.msg)
                          ELSE Categorized(mp.exc))]
                ELSE
                LET completed == [payment EXCEPT !.status = "completed",
                                                 !.tx_hash = mp.ret]
                    log1 == LogPayments(<<>>, <<completed>>, env.db[1])
                    le == LogError(<<completed>>, env.db[1])
                    rr == IF le.type # "none"
                          THEN [exc |-> le, reply |-> NoReply,
                                requests |-> <<>>]
                          ELSE retry_request_with_payment(
                                   response.req_headers, mp.ret, env.replay)
                    refailed == [completed EXCEPT !.status = "failed"]
                IN  IF ~Raised(rr)
                    THEN [R1 EXCEPT !.logged = log1, !.reply = rr.reply,
                             !.payments = <<completed>>,
                             !.requests = rr.requests]
                    ELSE \* an error after the payment lands in
                         \* "except Exception"
                         [R1 EXCEPT
                            !.payments = <<refailed>>,
                            !.logged = LogPayments(log1, <<refailed>>,
                                                   env.db[2]),
                            !.requests = rr.requests,
                            !.exc = RaiseAfter(
                                      LogError(<<refailed>>, env.db[2]),
                                      Categorized(rr.exc))]

\* ------------------------------------------- answers of the environment
RetryOk == [balq |-> BalSeq(0, {}), send |-> SendOk("0xdef")]
RetryFail == [balq |-> BalSeq(0, {}), send |-> SendFail({"connection"})]

BatchResults(n) == SeqsOfLen({OkHash("0xabc"), FailedHash}, n)

DefaultEnv(n) ==
    [gb |-> BalOk, drift |-> 0, balq |-> BalSeq(0, {}),
     batch |-> BatchReturn([i \in 1..n |-> OkHash("0xabc")]),
     retry |-> [i \in 1..n |-> RetryOk], db |-> <<TRUE, TRUE>>]

\* Whether the code retries after batch answer res (some, not all, failed).
Retrying(res) ==
    /\ \E i \in 1..Len(res) : HashSucceeded(res[i])
    /\ \E i \in 1..Len(res) : ~HashSucceeded(res[i])

RetrySeqsFor(res) ==
    IF Retrying(res)
    THEN {rs \in SeqsOfLen({RetryOk, RetryFail}, Len(res)) :
             \A i \in 1..Len(res) : HashSucceeded(res[i]) => rs[i] = RetryOk}
    ELSE {[i \in 1..Len(res) |-> RetryOk]}

\* The audit database works for the whole call or fails for the whole call.
DbOuts == {<<TRUE, TRUE>>, <<FALSE, FALSE>>}

\* The answers that matter to a flush of a queue of n entries: those that
\* end it at the processor's balance query, and those past the funds check.
BalanceQueryFails(n) ==
    {[DefaultEnv(n) EXCEPT !.gb = BalFail(m)] : m \in ErrMsgs}
PastFundsCheck(n) ==
    LET D == DefaultEnv(n)
    IN  {[D EXCEPT !.balq = BalSeq(max_balance_retries, m)] : m \in ErrMsgs}
        \cup
        {[D EXCEPT !.batch = BatchRaise(m)] : m \in ErrMsgs}
        \cup
        {[D EXCEPT !.batch = BatchRaise({}), !.db = db] : db \in DbOuts}
        \cup
        UNION {{[D EXCEPT !.batch = BatchReturn(res),
                          !.retry = rs, !.db = db] :
                   rs \in RetrySeqsFor(res), db \in DbOuts} :
               res \in BatchResults(n)}
FlushEnvsOfLen ==
    [n \in 1..MaxQueue |->
        [early |-> BalanceQueryFails(n), late |-> PastFundsCheck(n)]]

\* The answers that matter to a flush of queue q at balance bal, by the
\* point the flush reaches.
FlushEnvs(q, bal) ==
    LET n == Len(q)
        D == DefaultEnv(n)
    IN  IF n = 0 THEN {D}
        ELSE FlushEnvsOfLen[n].early
             \cup
             (IF bal < SumAmounts(q) THEN {D}
              ELSE FlushEnvsOfLen[n].late
                   \cup
                   {[D EXCEPT !.drift = d] : d \in {x \in {1} : x <= bal}})

\* The lists WalletManager.batch_payments is called with directly: every
\* list of at most two entries, valid or not, and lists of three with the
\* invalid entry at each position.
Pending(amount, recipient) ==
    Payment(amount, recipient, "tool", "pending", EmptyHash)
BatchEntries == {Pending(1, Addr(1)), Pending(2, Addr(2)),
                 Pending(0, Addr(1)), Pending(1, EmptyAddr)}
BatchInputs ==
    (SeqsUpTo(BatchEntries, 2) \ {<<>>})
    \cup {[i \in 1..3 |-> IF i = k THEN bad ELSE Pending(1, Addr(1))] :
             k \in 0..3, bad \in {Pending(-1, Addr(2)),
                                  Pending(2, EmptyAddr)}}

\* The provider's answers that matter to one batch_payments(payments).
BatchEnvs(payments, bal) ==
    LET n == Len(payments)
        D == [balq |-> BalSeq(0, {}),
              batch |-> BatchReturn([i \in 1..n |-> OkHash("0xabc")])]
    IN  IF FirstInvalid(payments, 1) # 0 THEN {D}
        ELSE {[D EXCEPT !.balq = BalSeq(k, {"connection"})] :
                 k \in {1, max_balance_retries}}
             \cup {[D EXCEPT !.batch = BatchReturn(res)] :
                      res \in BatchResults(n)}
             \cup {[D EXCEPT !.batch = BatchRaise(m)] : m \in ErrMsgs}

\* What add_deferred_payment is called with.
ValidInputs == {[amount |-> 1, recipient |-> Addr(1)],
                [amount |-> 2, recipient |-> Addr(2)]}
InvalidInputs ==
    {[amount |-> a, recipient |-> Addr(1)] : a \in BadAmounts}
    \cup {[amount |-> 1, recipient |-> r] : r \in BadAddrs \cup {PaddedAddr}}
    \cup {[amount |-> 0, recipient |-> EmptyAddr]}

\* The responses handle_402_response is called with.
PlainHeaders == [h \in {"Accept"} |-> "json"]
StaleHeaders == [h \in {"Accept", "X-Payment-Hash"} |->
                    IF h = "Accept" THEN "json" ELSE "0xold"]

Response(st, xam, am, xad, ad, hd) ==
    [status |-> st, xamount |-> xam, amount |-> am, xaddress |-> xad,
     address |-> ad, xtool |-> "tool", req_headers |-> hd]

ValidResponses ==
    { Response(402, HNum(1), HAbsent, AStr(Addr(1)), AAbsent, PlainHeaders),
      Response(402, HEmpty, HNum(2), AAbsent, AStr(PaddedAddr), StaleHeaders),
      Response(402, HNum(2), HNum(1), AStr(Addr(2)), AStr(Addr(1)),
               PlainHeaders) }
InvalidResponses ==
    { Response(402, HAbsent, HAbsent, AStr(Addr(1)), AAbsent, PlainHeaders),
      Response(402, HText, HNum(1), AStr(Addr(1)), AAbsent, PlainHeaders),
      Response(402, HNum(0), HNum(1), AStr(Addr(1)), AAbsent, PlainHeaders),
      Response(402, HNum(-1), HAbsent, AStr(Addr(1)), AAbsent, PlainHeaders),
      Response(402, HNum(1), HAbsent, AAbsent, AAbsent, PlainHeaders),
      Response(402, HNum(1), HAbsent, AStr(ShortAddr), AAbsent, PlainHeaders) }
OtherResponses ==
    { Response(200, HAbsent, HAbsent, AAbsent, AAbsent, PlainHeaders),
      Response(200, HNum(1), HAbsent, AStr(Addr(1)), AAbsent, PlainHeaders) }

\* What the three replays can meet: every mix of 402 and timeout, up to the
\* first 200, three connection or three other request errors, and a 500
\* on each attempt.
ReplaySeq(s) == [i \in 1..max_retries |-> IF i <= Len(s) THEN s[i] ELSE "200"]
ReplaySeqs ==
    {ReplaySeq(s) : s \in SeqsUpTo({"402", "timeout"}, max_retries)}
    \cup {[i \in 1..max_retries |-> o] : o \in {"connection", "request"}}
    \cup {ReplaySeq(<<"500">>), ReplaySeq(<<"402", "500">>),
          ReplaySeq(<<"timeout", "402", "500">>)}

Immediate200 == ReplaySeq(<<>>)
PayOk(r) == [balq |-> BalSeq(0, {}), send |-> SendOk(r)]

DefaultHandleEnv ==
    [gb |-> BalOk, drift |-> 0, mp |-> PayOk("0xabc"), db |-> <<TRUE, TRUE>>,
     replay |-> Immediate200]

\* The answers that matter to handle_402_response(response) at balance bal.
HandleEnvs(response, bal) ==
    LET D == DefaultHandleEnv
        info == parse_payment_headers(response)
    IN  IF response.status # 402 \/ ~info.ok THEN {D}
        ELSE {[D EXCEPT !.gb = BalFail(m)] : m \in ErrMsgs}
             \cup
             (IF bal < info.amount THEN {D}
              ELSE {[D EXCEPT !.mp = e] :
                        e \in {x \in MakePaymentEnvs : ~x.send.ok
                                  \/ ~x.balq[max_balance_retries].ok}}
                   \cup {[D EXCEPT !.drift = d] :
                            d \in {x \in {1} : x <= bal}}
                   \cup {[D EXCEPT !.mp = PayOk(r)] : r \in TxRefs}
                   \cup {[D EXCEPT !.replay = rs, !.db = db] :
                            rs \in ReplaySeqs, db \in DbOuts})

\* ========================================================= AgentSwarm =====

\* The agent objects handed to the swarm; object a holds wallet a when it
\* is created.  The last object carries the agent_id of the first.
AgentObjects == 1..(max_agents + 2)
agent_id(a) == IF a = max_agents + 2 THEN 1 ELSE a
NoMembers == [i \in {} |-> 0]

\* dict with key k set to v, and with key k deleted.
Put(d, k, v) == [i \in DOMAIN d \cup {k} |-> IF i = k THEN v ELSE d[i]]
Del(d, k) == [i \in DOMAIN d \ {k} |-> d[i]]

\* The sum of the distances of a dict's values from zero.
RECURSIVE Spread(_)
Spread(d) ==
    IF DOMAIN d = {} THEN 0
    ELSE LET k == CHOOSE i \in DOMAIN d : TRUE
         IN  (IF d[k] < 0 THEN 0 - d[k] ELSE d[k]) + Spread(Del(d, k))

\* The sum of a dict's values.
RECURSIVE Total(_)
Total(d) ==
    IF DOMAIN d = {} THEN 0
    ELSE LET k == CHOOSE i \in DOMAIN d : TRUE
         IN  d[k] + Total(Del(d, k))

\* "if len(self.agents) >= self.config.max_agents: raise ValueError"
AtCapacityOffByOne(members, capacity) ==
    Cardinality(DOMAIN members) > capacity
AtCapacity(members, capacity) == Cardinality(DOMAIN members) >= capacity

\* "if self.config.shared_wallet and not self.shared_wallet_manager"
EstablishesWhenEmpty(S) == S.shared_wallet /\ S.agents = NoMembers
Establishes(S) == S.shared_wallet /\ S.shared_wallet_manager = 0

\* AgentSwarm.add_agent(agent) on swarm state S (a record of the swarm's
\* fields).
add_agent(S, agent) ==
    IF AtCapacity(S.agents, S.max_agents)
    THEN [S EXCEPT !.exc = Exc("ValueError", {"capacity"})]
    ELSE IF agent_id(agent) \in DOMAIN S.agents
    THEN [S EXCEPT !.exc = Exc("ValueError", {"already"})]
    ELSE
    LET swm == IF Establishes(S)
               THEN S.wallet_manager[agent]
               ELSE S.shared_wallet_manager
        replace == S.shared_wallet /\ swm # 0
    IN  [S EXCEPT
           !.exc = NoExc,
           !.shared_wallet_manager = swm,
           !.wallet_manager[agent] = IF replace THEN swm ELSE @,
           !.processor_wallet[agent] = IF replace THEN swm ELSE @,
           !.agents = Put(@, agent_id(agent), agent),
           !.joined = Append(@, agent_id(agent)),
           !.agent_spending = Put(@, agent_id(agent), 0),
           !.swarm_ref = @ \cup {agent}]

\* AgentSwarm.remove_agent(agent_id): flag is the value returned.
remove_agent(S, id) ==
    IF id \in DOMAIN S.agents
    THEN [S EXCEPT !.exc = NoExc, !.flag = TRUE,
                   !.swarm_ref = @ \ {S.agents[id]},
                   !.agents = Del(@, id),
                   !.joined = SelectSeq(@, LAMBDA i : i # id),
                   !.agent_spending = Del(@, id)]
    ELSE [S EXCEPT !.exc = NoExc, !.flag = FALSE]

\* AgentSwarm.update_agent_spending(agent_id, amount, tool_name); the
\* tool name "" stands for None.  detailed_spending holds the agents with
\* an amount on the tool; an agent whose dict of tools is empty reads the
\* same as one without a dict and is left out.
update_agent_spending(S, id, amount, tool_name) ==
    IF id \in DOMAIN S.agent_spending
    THEN [S EXCEPT
            !.exc = NoExc,
            !.agent_spending[id] = @ + amount,
            !.detailed_spending =
                IF tool_name # ""
                THEN Put(@, id, (IF id \in DOMAIN @ THEN @[id] ELSE 0)
                                + amount)
                ELSE @]
    ELSE [S EXCEPT !.exc = NoExc]

\* A call the swarm makes on an agent object or on a wallet manager.
AgentCall(agent, fn) ==
    [on |-> "agent", id |-> agent, fn |-> fn, amount |-> 0,
     recipient |-> EmptyAddr]
WalletCall(wallet, fn, amount, recipient) ==
    [on |-> "wallet", id |-> wallet, fn |-> fn, amount |-> amount,
     recipient |-> recipient]

\* What agent.get_balance() answers: a figure, or it raises.
Live(b) == [ok |-> TRUE, value |-> b, msg |-> {}]
LiveFail == [ok |-> FALSE, value |-> 0, msg |-> {"balance", "connection"}]

\* The reference a shared-wallet transfer returns:
\* f"shared_wallet_transfer_{from}_to_{to}_{amount}".
SharedTransferRef == OkHash("shared_wallet_transfer")

\* "if from_agent.get_balance() < amount: raise ValueError"
SenderShort(live, amount) == live < amount

\* "self.agent_spending[from_agent_id] += amount; if to_agent_id in
\* self.agent_spending: self.agent_spending[to_agent_id] -= amount"
BookTransferSenderOnly(spending, from, to, amount) ==
    [spending EXCEPT ![from] = @ + amount]
BookTransfer(spending, from, to, amount) ==
    LET debited == [spending EXCEPT ![from] = @ + amount]
    IN  IF to \in DOMAIN debited
        THEN [debited EXCEPT ![to] = @ - amount]
        ELSE debited

\* "self.agent_spending[from_agent_id] += amount" after the payment.
BookPaymentAlsoReceiver(spending, from, to, amount) ==
    [[spending EXCEPT ![from] = @ + amount] EXCEPT ![to] = @ - amount]
BookPayment(spending, from, to, amount) ==
    [spending EXCEPT ![from] = @ + amount]

\* AgentSwarm.transfer_to_agent(from_agent_id, to_agent_id, amount).
\* env = [live, mp]: the answer to from_agent.get_balance() and the
\* provider's answers to the sender's wallet during make_payment.
transfer_to_agent(S, from, to, amount, env) ==
    IF from \notin DOMAIN S.agents
    THEN [S EXCEPT !.exc = Exc("ValueError", {"not in swarm", "sender"})]
    ELSE IF to \notin DOMAIN S.agents
    THEN [S EXCEPT !.exc = Exc("ValueError", {"not in swarm", "receiver"})]
    ELSE
    LET from_agent == S.agents[from]
        to_agent == S.agents[to]
        asked == <<AgentCall(from_agent, "get_balance")>>
    IN  IF ~env.live.ok
        THEN [S EXCEPT !.exc = Exc("RuntimeError", env.live.msg),
                       !.wcalls = asked]
        ELSE IF SenderShort(env.live.value, amount)
        THEN [S EXCEPT !.exc = Exc("ValueError", {"insufficient"}),
                       !.wcalls = asked]
        ELSE IF S.shared_wallet
        THEN [S EXCEPT
                !.exc = NoExc, !.wcalls = asked,
                !.agent_spending = BookTransfer(@, from, to, amount),
                !.hash = SharedTransferRef]
        ELSE
        LET to_wallet == S.wallet_manager[to_agent]
            from_wallet == S.wallet_manager[from_agent]
            to_agent_address == Addr(to_wallet)
            r == make_payment(amount, to_agent_address, env.live.value,
                              env.mp)
            calls == asked \o
                     <<WalletCall(to_wallet, "get_address", 0, EmptyAddr),
                       WalletCall(from_wallet, "make_payment", amount,
                                  to_agent_address)>>
        IN  IF Raised(r)
            THEN [S EXCEPT !.exc = r.exc, !.wcalls = calls]
            ELSE [S EXCEPT
                    !.exc = NoExc, !.wcalls = calls, !.hash = r.ret,
                    !.agent_spending = BookPayment(@, from, to, amount)]

\* AgentSwarm.reset_spending_tracking().
reset_spending_tracking(S) ==
    [S EXCEPT !.exc = NoExc,
              !.agent_spending = [id \in DOMAIN @ |-> 0],
              !.detailed_spending = NoMembers]

\* A share of a cost: the quotient n / d of two integers, d # 0.
Share(n, d) == [n |-> n, d |-> d]
SameShare(a, b) == a.n * b.d = b.n * a.d
PlusShare(a, b) == Share(a.n * b.d + b.n * a.d, a.d * b.d)

\* CostSplittingMethod, and SwarmConfig.cost_splitting_method as the
\* swarm is constructed; the method "" stands for None.
CostSplittingMethod == {"equal", "usage_based", "manual"}
cost_splitting_method == "equal"

\* "if total_spending > 0:"
HasUsage(total_spending) == total_spending > 0

\* "cost_per_agent = total_cost / len(self.agents)", for every agent.
EqualSplit(members, total_cost) ==
    [id \in members |-> Share(total_cost, Cardinality(members))]

\* AgentSwarm.split_costs(total_cost, method): the shares it returns.
split_costs(S, total_cost, method) ==
    LET splitting_method ==
            IF method # "" THEN method ELSE cost_splitting_method
        total_spending == Total(S.agent_spending)
        cost_distribution ==
            IF DOMAIN S.agents = {} THEN NoMembers
            ELSE IF splitting_method = "equal"
            THEN EqualSplit(DOMAIN S.agents, total_cost)
            ELSE IF splitting_method = "usage_based"
            THEN IF HasUsage(total_spending)
                 THEN [id \in DOMAIN S.agent_spending |->
                          Share(total_cost * S.agent_spending[id],
                                total_spending)]
                 ELSE EqualSplit(DOMAIN S.agents, total_cost)
            ELSE NoMembers
    IN  [S EXCEPT !.exc = NoExc, !.shares = cost_distribution]

\* ------------------------------------------------------ collaboration ----
\* A text an agent answers with or the swarm writes, by what the swarm
\* reads of it: whether it starts with "ERROR:" and which of the words the
\* swarm looks for occur in it.
ErrorWord == "ERROR:"
ZeroWord == "Successful agents: 0/"
Text(name, starts, mentions) ==
    [text |-> name, starts_error |-> starts, mentions |-> mentions]
Plain == Text("done", FALSE, {})
Quoting == Text("it said: ERROR: x, Successful agents: 0/2", FALSE,
                {ErrorWord, ZeroWord})
NoText == Text("", FALSE, {})

\* f"ERROR: {str(e)}" and "No subtask assigned".
ErrorMarker(msg) == Text(msg, TRUE, {ErrorWord})
NoSubtask == Text("No subtask assigned", FALSE, {})

\* What agent.run(prompt) does: it returns a text or it raises.
Returns(t) == [raised |-> FALSE, text |-> t, msg |-> ""]
Raises(msg) == [raised |-> TRUE, text |-> NoText, msg |-> msg]
RunOutcomes == {Returns(Plain), Returns(Quoting), Raises("boom")}

\* A task is a string of tokens: a word k > 0, the separator ". " (Sep)
\* and a full stop that no space follows (Dot).
Sep == 0
Dot == 0 - 1

\* task.split('. '): the sentences between the separators.
RECURSIVE Split(_)
Split(task) ==
    IF \A i \in DOMAIN task : task[i] # Sep THEN <<task>>
    ELSE LET at == CHOOSE i \in DOMAIN task :
                      /\ task[i] = Sep
                      /\ \A j \in 1..(i - 1) : task[j] # Sep
         IN  <<SubSeq(task, 1, at - 1)>>
             \o Split(SubSeq(task, at + 1, Len(task)))

\* '. '.join(sentences)
RECURSIVE Join(_)
Join(sentences) ==
    IF sentences = <<>> THEN <<>>
    ELSE IF Len(sentences) = 1 THEN sentences[1]
    ELSE sentences[1] \o <<Sep>> \o Join(Tail(sentences))

\* "part_size = len(sentences) // num_parts"
PartSizeRoundedUp(count, num_parts) == (count + num_parts - 1) \div num_parts
PartSize(count, num_parts) == count \div num_parts

\* AgentSwarm._divide_task(task, num_parts).
_divide_task(task, num_parts) ==
    LET sentences == Split(task)
        part_size == PartSize(Len(sentences), num_parts)
        part(i) ==
            LET start_idx == i * part_size
                end_idx == IF i = num_parts - 1 THEN Len(sentences)
                           ELSE (i + 1) * part_size
                joined_part == Join(SubSeq(sentences, start_idx + 1, end_idx))
            IN  IF joined_part # <<>> /\ joined_part[Len(joined_part)] # Dot
                THEN Append(joined_part, Dot)
                ELSE joined_part
    IN  IF Len(sentences) <= num_parts THEN sentences
        ELSE [k \in 1..num_parts |-> part(k - 1)]

\* The prompt a member is run on: the task, a part of it behind "Work on
\* this part of the task: ", or the task with "Building on: " the result
\* before it and "Previous results: " the results so far.
Prompt(kind, task, building_on, previous) ==
    [kind |-> kind, task |-> task, building_on |-> building_on,
     previous |-> previous]
FullTask(task) == Prompt("task", task, <<>>, <<>>)
PartOfTask(subtask) == Prompt("part", subtask, <<>>, <<>>)

\* One call of agent.run, and one entry of a results dict, which holds
\* its keys in the order they were set.
Run(id, prompt) == [agent_id |-> id, prompt |-> prompt]
ResultEntry(id, text) == [agent_id |-> id, result |-> text]

\* "try: result = agent.run(...); results[agent_id] = result
\*  except Exception as e: results[agent_id] = f"ERROR: {str(e)}""
ResultOfDropped(id, outcome) ==
    IF outcome.raised THEN <<>> ELSE <<ResultEntry(id, outcome.text)>>
ResultOf(id, outcome) ==
    IF outcome.raised THEN <<ResultEntry(id, ErrorMarker(outcome.msg))>>
    ELSE <<ResultEntry(id, outcome.text)>>

\* AgentSwarm._execute_parallel_collaboration(task); run gives what
\* agent.run does for each member.  The value is the results and the
\* calls of agent.run, in order.
_execute_parallel_collaboration(S, task, run) ==
    LET RECURSIVE Loop(_, _, _)
        Loop(k, results, runs) ==
            IF k > Len(S.joined) THEN [results |-> results, runs |-> runs]
            ELSE LET id == S.joined[k]
                 IN  Loop(k + 1, results \o ResultOf(id, run[id]),
                          Append(runs, Run(id, FullTask(task))))
    IN  Loop(1, <<>>, <<>>)

\* "enhanced_task = f"{current_context}\n\nPrevious results: {results}""
EnhancedTaskSuccessesOnly(task, building_on, results) ==
    Prompt("enhanced", task, building_on,
           SelectSeq(results, LAMBDA r : ~r.result.starts_error))
EnhancedTask(task, building_on, results) ==
    Prompt("enhanced", task, building_on, results)

\* AgentSwarm._execute_sequential_collaboration(task).  current_context
\* is the task, and from the first success on the task with "Building on:"
\* the latest result.
_execute_sequential_collaboration(S, task, run) ==
    LET RECURSIVE Loop(_, _, _, _)
        Loop(k, results, building_on, runs) ==
            IF k > Len(S.joined) THEN [results |-> results, runs |-> runs]
            ELSE LET id == S.joined[k]
                     enhanced_task ==
                         EnhancedTask(task, building_on, results)
                 IN  Loop(k + 1, results \o ResultOf(id, run[id]),
                          IF run[id].raised THEN building_on
                          ELSE <<run[id].text>>,
                          Append(runs, Run(id, enhanced_task)))
    IN  Loop(1, <<>>, <<>>, <<>>)

\* "if i < len(task_parts):"
HasPart(i, task_parts) == i < Len(task_parts)

\* AgentSwarm._execute_divided_collaboration(task); i counts from 0.
_execute_divided_collaboration(S, task, run) ==
    LET task_parts == _divide_task(task, Len(S.joined))
        RECURSIVE Loop(_, _, _)
        Loop(i, results, runs) ==
            IF i >= Len(S.joined) THEN [results |-> results, runs |-> runs]
            ELSE LET id == S.joined[i + 1]
                 IN  IF HasPart(i, task_parts)
                     THEN Loop(i + 1, results \o ResultOf(id, run[id]),
                               Append(runs,
                                      Run(id, PartOfTask(task_parts[i + 1]))))
                     ELSE Loop(i + 1, Append(results, ResultEntry(id, NoSubtask)),
                               runs)
    IN  Loop(0, <<>>, <<>>)

\* "successful_agents = len([r for r in results.values()
\*                           if not r.startswith("ERROR:")])"
Successful(results) ==
    Len(SelectSeq(results, LAMBDA r : ~r.result.starts_error))

\* AgentSwarm._aggregate_results(results, errors): the report as its
\* parts.  "No results from collaboration" is the report of kind "none".
NoReport ==
    [kind |-> "", entries |-> <<>>, errors |-> <<>>, successful |-> 0,
     total |-> 0, attempts |-> 0, last_error |-> <<>>]
_aggregate_results(S, results, errors) ==
    IF results = <<>> /\ errors = <<>>
    THEN [NoReport EXCEPT !.kind = "none"]
    ELSE [NoReport EXCEPT !.kind = "results",
                          !.entries = results,
                          !.errors = errors,
                          !.successful = Successful(results),
                          !.total = Cardinality(DOMAIN S.agents)]

\* AgentSwarm.collaborate(task, distribution_strategy): the exception it
\* raised or the report it returned, and the calls of agent.run.
Strategies == {"parallel", "sequential", "divide"}
collaborate(S, task, distribution_strategy, run) ==
    IF DOMAIN S.agents = {}
    THEN [exc |-> Exc("ValueError", {"no agents"}), report |-> NoReport,
          runs |-> <<>>]
    ELSE
    LET done ==
            IF distribution_strategy = "parallel"
            THEN _execute_parallel_collaboration(S, task, run)
            ELSE IF distribution_strategy = "sequential"
            THEN _execute_sequential_collaboration(S, task, run)
            ELSE IF distribution_strategy = "divide"
            THEN _execute_divided_collaboration(S, task, run)
            ELSE [results |-> <<>>, runs |-> <<>>]
        errors ==
            IF distribution_strategy \in Strategies THEN <<>>
            ELSE <<"Unknown distribution strategy">>
    IN  [exc |-> NoExc,
         report |-> _aggregate_results(S, done.results, errors),
         runs |-> done.runs]

\* The amounts of AgentSwarm._attempt_recovery, in cents: a balance
\* below 0.01 is low, one above 1.0 is high, and 0.1 is transferred.
LowBalance == 1
HighBalance == 100
RecoveryTransfer == 10

\* AgentSwarm._attempt_recovery().  renv = [bal, xfer]: what
\* agent.get_balance() answers for each member, and the answers each
\* transfer_to_agent meets.  The value is the swarm it leaves and the
\* exception it raised.  (The agents' message queues are not followed.)
_attempt_recovery(S, renv) ==
    LET RECURSIVE Sorted(_, _, _)
        Sorted(k, low, high) ==
            IF k > Len(S.joined)
            THEN [exc |-> NoExc, low |-> low, high |-> high]
            ELSE LET id == S.joined[k]
                     answer == renv.bal[id]
                 IN  IF ~answer.ok
                     THEN [exc |-> Exc("RuntimeError", answer.msg),
                           low |-> low, high |-> high]
                     ELSE IF answer.value < LowBalance
                     THEN Sorted(k + 1, Append(low, id), high)
                     ELSE IF answer.value > HighBalance
                     THEN Sorted(k + 1, low, Append(high, id))
                     ELSE Sorted(k + 1, low, high)
        sorted == Sorted(1, <<>>, <<>>)
        RECURSIVE Transfers(_, _)
        Transfers(T, low) ==
            IF low = <<>> THEN T
            ELSE LET sent == transfer_to_agent(T, sorted.high[1], Head(low),
                                               RecoveryTransfer, renv.xfer)
                 IN  Transfers([T EXCEPT
                                  !.agent_spending = sent.agent_spending,
                                  !.wcalls = @ \o sent.wcalls],
                               Tail(low))
    IN  IF sorted.exc # NoExc THEN [S |-> S, exc |-> sorted.exc]
        ELSE IF sorted.low # <<>> /\ sorted.high # <<>>
        THEN [S |-> Transfers(S, sorted.low), exc |-> NoExc]
        ELSE [S |-> S, exc |-> NoExc]

\* "ERROR:" in result, "Successful agents: 0/" in result: the words occur
\* in a result a member gave, and the second in the summary of a report
\* that counts no successful agent.
Mentions(report, word) ==
    \/ \E i \in DOMAIN report.entries :
          word \in report.entries[i].result.mentions
    \/ word = ZeroWord /\ report.kind = "results" /\ report.successful = 0

\* "if "ERROR:" not in result or "Successful agents: 0/" not in result:
\*      return result"
Meaningful(report) ==
    ~Mentions(report, ErrorWord) \/ ~Mentions(report, ZeroWord)

\* "if attempt < max_retries: self._attempt_recovery()"
Recovers(attempt, retries) == attempt < retries

\* "if last_error: recovery_msg += f"\nLast error: {str(last_error)}""
\* last_error is None (<<>>) or the exception caught last.
FailureReport(retries, last_error) ==
    [NoReport EXCEPT !.kind = "failed", !.attempts = retries + 1,
                     !.last_error = last_error]

\* What the members and the wallets can answer to one attempt and to one
\* recovery pass of collaborate_with_recovery.
AllAnswer(outcome) == [id \in 1..3 |-> outcome]
FirstAnswers(S, outcome, others) ==
    [id \in 1..3 |-> IF S.joined # <<>> /\ id = S.joined[1]
                       THEN outcome ELSE others]
AttemptRuns(S) ==
    {AllAnswer(Returns(Plain)), AllAnswer(Raises("boom")),
     FirstAnswers(S, Raises("boom"), Returns(Plain)),
     FirstAnswers(S, Returns(Quoting), Raises("boom"))}
TransferWorks == [live |-> Live(200), mp |-> PayOk("0xabc")]
TransferFails == [live |-> LiveFail, mp |-> PayOk("0xabc")]
RecoveryEnvs(S) ==
    {[bal |-> AllAnswer(Live(50)), xfer |-> TransferWorks],
     [bal |-> AllAnswer(LiveFail), xfer |-> TransferWorks],
     [bal |-> FirstAnswers(S, Live(0), Live(200)), xfer |-> TransferWorks],
     [bal |-> FirstAnswers(S, Live(0), Live(200)), xfer |-> TransferFails]}

\* One step of collaborate_with_recovery: an attempt with the report it
\* ended with (raised: collaborate raised), or a recovery pass (raised:
\* it raised).
AttemptStep(col) ==
    [ev |-> "attempt", raised |-> col.exc # NoExc, report |-> col.report]
RecoveryStep(rec) ==
    [ev |-> "recovery", raised |-> rec.exc # NoExc, report |-> NoReport]

\* AgentSwarm.collaborate_with_recovery(task, max_retries): every way
\* the call can go, each as the swarm it leaves, the exception it raised
\* or the report it returned, its steps and its calls of agent.run.
Ended(T, e, rep, stepsDone, runsDone) ==
    [S |-> [T EXCEPT !.exc = e], report |-> rep, steps |-> stepsDone,
     runs |-> runsDone]

RECURSIVE AttemptLoop(_, _, _, _, _, _, _)
\* "except Exception as e: last_error = e", in attempt number attempt.
ExceptHandler(task, retries, T, attempt, stepsDone, runsDone, e) ==
    IF Recovers(attempt, retries)
    THEN UNION {
           LET rec == _attempt_recovery(T, renv)
               steps1 == Append(stepsDone, RecoveryStep(rec))
           IN  IF rec.exc # NoExc
               THEN {Ended(rec.S, rec.exc, NoReport, steps1, runsDone)}
               ELSE AttemptLoop(task, retries, rec.S, attempt + 1, steps1,
                                runsDone, <<e>>)
           : renv \in RecoveryEnvs(T)}
    ELSE {Ended(T, NoExc, FailureReport(retries, <<e>>), stepsDone,
                runsDone)}

\* "while attempt <= max_retries:", from attempt number attempt on.
AttemptLoop(task, retries, T, attempt, stepsDone, runsDone, last_error) ==
    IF attempt > retries
    THEN {Ended(T, NoExc, FailureReport(retries, last_error), stepsDone,
                runsDone)}
    ELSE UNION {
           LET col == collaborate(T, task, "parallel", run)
               steps1 == Append(stepsDone, AttemptStep(col))
               runs1 == runsDone \o col.runs
           IN  IF col.exc # NoExc
               THEN ExceptHandler(task, retries, T, attempt, steps1, runs1,
                                  col.exc)
               ELSE IF Meaningful(col.report)
               THEN {Ended(T, NoExc, col.report, steps1, runs1)}
               ELSE IF Recovers(attempt, retries)
               THEN UNION {
                      LET rec == _attempt_recovery(T, renv)
                          steps2 == Append(steps1, RecoveryStep(rec))
                      IN  IF rec.exc # NoExc
                          THEN ExceptHandler(task, retries, rec.S, attempt,
                                             steps2, runs1, rec.exc)
                          ELSE AttemptLoop(task, retries, rec.S, attempt + 1,
                                           steps2, runs1, last_error)
                      : renv \in RecoveryEnvs(T)}
               ELSE {Ended(T, NoExc, FailureReport(retries, last_error),
                           steps1, runs1)}
           : run \in AttemptRuns(T)}

collaborate_with_recovery(S, task, retries) ==
    AttemptLoop(task, retries, S, 0, <<>>, <<>>, <<>>)

\* ================================================== network providers =====

\* Web3.is_address(recipient), for the addresses of the model.
is_address(a) == a.pfx /\ a.len = AddrLen /\ a.pad = 0

\* What the node answers to one pass of a provider's retry loop over one
\* payment: the transfer was broadcast with reference ref and confirmed,
\* it was broadcast and what followed the broadcast raised msg, or the
\* pass raised msg before anything was broadcast.
Broadcast(r) == [sent |-> TRUE, confirmed |-> TRUE, ref |-> r, msg |-> {}]
Unconfirmed(r, m) ==
    [sent |-> TRUE, confirmed |-> FALSE, ref |-> r, msg |-> m]
Refused(m) == [sent |-> FALSE, confirmed |-> FALSE, ref |-> "", msg |-> m]

\* The ledger: a broadcast transfer moves the amount if the balance covers
\* it and is reverted otherwise.
Transfer(bal, amount) == IF bal >= amount THEN bal - amount ELSE bal

\* One pass of a retry loop: the payment it was for, and whether it
\* broadcast a transfer.
Pass(i, sent) == [item |-> i, sent |-> sent]

\* "max_retries = 3" of batch_payments, of both providers.
batch_max_retries == 3

\* f"FAILED after {max_retries} retries: {str(e)}"
FailedAfterRetries == [failed |-> TRUE, ref |-> "FAILED after retries"]

\* "retry_count += 1; if retry_count >= max_retries:"
RetriesExhaustedLate(retry_count) == retry_count > batch_max_retries
RetriesExhausted(retry_count) == retry_count >= batch_max_retries

\* BaseNetworkProvider.batch_payments, "while retry_count < max_retries:"
\* for payments[i]; acc = [tx_hashes, tried, bal].  Nothing follows
\* send_raw_transaction that can raise.
RECURSIVE BaseItemLoop(_, _, _, _, _)
BaseItemLoop(i, payment, outs, retry_count, acc) ==
    IF ~(retry_count < batch_max_retries) THEN acc
    ELSE
    LET o == outs[retry_count + 1]
        sent == is_address(payment.recipient) /\ payment.amount > 0 /\ o.sent
        acc1 == [acc EXCEPT !.tried = Append(@, Pass(i, sent))]
    IN  IF sent
        THEN [acc1 EXCEPT !.tx_hashes = Append(@, OkHash(o.ref)),
                          !.bal = Transfer(@, payment.amount)]
        ELSE IF RetriesExhausted(retry_count + 1)
        THEN BaseItemLoop(i, payment, outs, retry_count + 1,
                 [acc1 EXCEPT !.tx_hashes = Append(@, FailedAfterRetries)])
        ELSE BaseItemLoop(i, payment, outs, retry_count + 1, acc1)

\* "for i, payment in enumerate(payments):"
RECURSIVE BasePaymentsLoop(_, _, _, _)
BasePaymentsLoop(payments, outs, i, acc) ==
    IF i > Len(payments) THEN acc
    ELSE BasePaymentsLoop(payments, outs, i + 1,
                          BaseItemLoop(i, payments[i], outs[i], 0, acc))

\* BaseNetworkProvider.batch_payments(private_key, payments) at ledger
\* balance bal; env = [nonce, outs]: whether the starting nonce could be
\* read, and the node's answers to the passes over each payment.
BaseNetworkProvider_batch_payments(payments, bal, env) ==
    IF payments = <<>>
    THEN [exc |-> NoExc, ret |-> <<>>, tried |-> <<>>, bal |-> bal]
    ELSE IF ~env.nonce
    THEN [exc |-> Exc("ConnectionError", {"connection"}), ret |-> <<>>,
          tried |-> <<>>, bal |-> bal]
    ELSE LET acc == BasePaymentsLoop(payments, env.outs, 1,
                        [tx_hashes |-> <<>>, tried |-> <<>>, bal |-> bal])
         IN  [exc |-> NoExc, ret |-> acc.tx_hashes, tried |-> acc.tried,
              bal |-> acc.bal]

\* SolanaNetworkProvider.send_usdc_payment(private_key, recipient, amount):
\* every exception leaves as RuntimeError "Failed to send USDC payment".
send_usdc_payment(recipient, amount, bal, o) ==
    IF amount <= 0
    THEN [exc |-> Exc("RuntimeError", {"positive"}), ret |-> EmptyHash,
          sent |-> FALSE, bal |-> bal]
    ELSE IF ~o.sent
    THEN [exc |-> Exc("RuntimeError", o.msg), ret |-> EmptyHash,
          sent |-> FALSE, bal |-> bal]
    ELSE IF ~o.confirmed \/ bal < amount
    THEN \* _wait_for_confirmation raised: no status in time, or the
         \* transfer failed on the ledger
         [exc |-> Exc("RuntimeError", o.msg \cup {"transaction"}),
          ret |-> EmptyHash, sent |-> TRUE, bal |-> Transfer(bal, amount)]
    ELSE [exc |-> NoExc, ret |-> OkHash(o.ref), sent |-> TRUE,
          bal |-> Transfer(bal, amount)]

\* SolanaNetworkProvider.batch_payments, "while retry_count <
\* max_retries:" for payments[i].
RECURSIVE SolanaItemLoop(_, _, _, _, _)
SolanaItemLoop(i, payment, outs, retry_count, acc) ==
    IF ~(retry_count < batch_max_retries) THEN acc
    ELSE
    LET r == send_usdc_payment(payment.recipient, payment.amount, acc.bal,
                               outs[retry_count + 1])
        acc1 == [acc EXCEPT !.tried = Append(@, Pass(i, r.sent)),
                            !.bal = r.bal]
    IN  IF r.exc = NoExc
        THEN [acc1 EXCEPT !.tx_hashes = Append(@, r.ret)]
        ELSE IF RetriesExhausted(retry_count + 1)
        THEN SolanaItemLoop(i, payment, outs, retry_count + 1,
                 [acc1 EXCEPT !.tx_hashes = Append(@, FailedAfterRetries)])
        ELSE SolanaItemLoop(i, payment, outs, retry_count + 1, acc1)

\* "for payment in payments:"
RECURSIVE SolanaPaymentsLoop(_, _, _, _)
SolanaPaymentsLoop(payments, outs, i, acc) ==
    IF i > Len(payments) THEN acc
    ELSE SolanaPaymentsLoop(payments, outs, i + 1,
                            SolanaItemLoop(i, payments[i], outs[i], 0, acc))

\* SolanaNetworkProvider.batch_payments(private_key, payments).
SolanaNetworkProvider_batch_payments(payments, bal, env) ==
    IF payments = <<>>
    THEN [exc |-> NoExc, ret |-> <<>>, tried |-> <<>>, bal |-> bal]
    ELSE LET acc == SolanaPaymentsLoop(payments, env.outs, 1,
                        [tx_hashes |-> <<>>, tried |-> <<>>, bal |-> bal])
         IN  [exc |-> NoExc, ret |-> acc.tx_hashes, tried |-> acc.tried,
              bal |-> acc.bal]

\* "max_retries = 3" of BaseNetworkProvider.send_payment.
send_max_retries == 3

\* 'any(term in error_msg for term in ["insufficient funds", "invalid",
\* "nonce too low"])': the errors send_payment does not retry.
NotRetried(msg) ==
    \/ {"insufficient", "funds"} \subseteq msg
    \/ "invalid" \in msg
    \/ {"nonce", "low"} \subseteq msg

\* 'if "timeout" in str(e).lower()', of an error met while waiting for the
\* receipt.
ReceiptTimeout(msg) == "timeout" \in msg

\* "Transaction failed on blockchain (status: {tx_receipt.status})"
FailedOnBlockchain == {"transaction", "failed", "blockchain"}

\* BaseNetworkProvider.send_payment, "for attempt in range(max_retries):"
\* from pass number attempt on; acc = [tried, bal].  outs[k] is what the
\* node answers in pass k: the transfer is broadcast or send_raw_transaction
\* (or the nonce query before it) raises; once broadcast, the receipt
\* arrives or waiting for it raises.  The receipt of a transfer the
\* balance does not cover has status 0.
RECURSIVE SendPaymentLoop(_, _, _, _, _)
SendPaymentLoop(attempt, recipient, amount, outs, acc) ==
    IF ~is_address(recipient)
    THEN [exc |-> Exc("ValueError", {"invalid", "recipient"}),
          ret |-> EmptyHash, tried |-> acc.tried, bal |-> acc.bal]
    ELSE IF amount <= 0
    THEN [exc |-> Exc("ValueError", {"positive"}), ret |-> EmptyHash,
          tried |-> acc.tried, bal |-> acc.bal]
    ELSE
    LET o == outs[attempt + 1]
        covered == acc.bal >= amount
        acc1 == [tried |-> Append(acc.tried, Pass(1, o.sent)),
                 bal |-> IF o.sent THEN Transfer(acc.bal, amount)
                         ELSE acc.bal]
        Returned == [exc |-> NoExc, ret |-> OkHash(o.ref),
                     tried |-> acc1.tried, bal |-> acc1.bal]
        \* "except Exception as e:" of the pass
        Handled(e) ==
            IF NotRetried(e)
            THEN [exc |-> Exc("RuntimeError", {"payment", "failed"} \cup e),
                  ret |-> EmptyHash, tried |-> acc1.tried,
                  bal |-> acc1.bal]
            ELSE IF attempt < send_max_retries - 1
            THEN SendPaymentLoop(attempt + 1, recipient, amount, outs, acc1)
            ELSE [exc |-> Exc("RuntimeError",
                              {"payment", "failed", "attempts"} \cup e),
                  ret |-> EmptyHash, tried |-> acc1.tried,
                  bal |-> acc1.bal]
    IN  IF ~o.sent THEN Handled(o.msg)
        ELSE IF o.confirmed
        THEN IF covered THEN Returned ELSE Handled(FailedOnBlockchain)
        ELSE IF ReceiptTimeout(o.msg) THEN Returned
        ELSE Handled(o.msg)

\* BaseNetworkProvider.send_payment(private_key, recipient, amount) at
\* ledger balance bal.
BaseNetworkProvider_send_payment(recipient, amount, bal, outs) ==
    SendPaymentLoop(0, recipient, amount, outs,
                    [tried |-> <<>>, bal |-> bal])

\* ------------------------------------------- payers sharing one wallet
\* The agents whose processors use one wallet_manager, each in a thread
\* of its own, and the locals of one handle_402_response call: the amount
\* charged, the balance its own check saw, whether the send met a balance
\* that did not cover the amount, and how the call ended.
Payers == {1, 2}
NoCharge == [amount |-> 0, seen |-> 0 - 1, short |-> FALSE, exc |-> NoExc,
             hash |-> EmptyHash]

\* WalletManager.make_payment, "except Exception as e:" around
\* network_provider.send_payment: what it raises for the error e.
SendErrorRaised(e) ==
    IF "insufficient" \in e.msg \/ "balance" \in e.msg
    THEN InsufficientForPayment(e.msg)
    ELSE Exc("RuntimeError", {"payment", "failed"} \cup e.msg)

\* handle_402_response, "except ValueError" and "except Exception" around
\* wallet_manager.make_payment: what it raises for the error e.
PaymentErrorRaised(e, amount, current_balance) ==
    IF e.type = "ValueError"
    THEN IF "insufficient" \in e.msg
         THEN InsufficientFundsError(amount, current_balance, e.msg)
         ELSE Exc("PaymentValidationError", e.msg)
    ELSE Categorized(e)

\* ============================================================= state =====
VARIABLES
    deferred_payments,  \* PaymentProcessor.deferred_payments
    balance,            \* the wallet's balance on the provider's ledger
    op,                 \* the call that was made last
    args,               \* its arguments
    preQueue,           \* deferred_payments when it was called
    exc,                \* the exception it raised (NoExc: it returned)
    flag,               \* the boolean it returned
    hash,               \* the transaction hash it returned
    wcalls,             \* the wallet_manager calls it made, in order
    pcalls,             \* the provider calls it made, in order
    logged,             \* the rows it wrote to payment_transactions
    flushes,            \* how often it ran process_deferred_payments
    batch,              \* what wallet_manager.batch_payments answered
    seen,               \* the balance the processor's own query returned
    payments,           \* its Payment objects as it left them
    resp,               \* the response handle_402_response was given
    requests,           \* the headers of each replay request it issued
    reply,              \* the response it returned
    preBalance,         \* the wallet's balance when it was called
    network,            \* WalletManager.network
    network_provider,   \* WalletManager.network_provider
    address,            \* WalletManager.address
    private_key,        \* WalletManager.private_key
    shared_wallet,      \* AgentSwarm.config.shared_wallet
    config_max_agents,  \* AgentSwarm.config.max_agents
    moved,              \* whether the last call changed the swarm
    agents,             \* AgentSwarm.agents: agent_id -> agent object
    joined,             \* the keys of AgentSwarm.agents in the order the
                        \* dict holds them
    agent_spending,     \* AgentSwarm.agent_spending: agent_id -> amount
    detailed_spending,  \* AgentSwarm.detailed_spending: agent_id -> amount
                        \* spent on the tool
    shared_wallet_manager, \* AgentSwarm.shared_wallet_manager (0: None)
    wallet_manager,     \* agent.wallet_manager of every agent object
    processor_wallet,   \* agent.payment_processor.wallet_manager
    swarm_ref,          \* the agent objects whose _swarm is set
    first_wallet,       \* shared-wallet swarm: the wallet the first agent
                        \* ever added came with (0: none added yet)
    shares,             \* the cost distribution the last call returned
    report,             \* the collaboration report it returned
    steps,              \* its attempts and recovery passes, in order
    runs,               \* its calls of agent.run, in order
    tx_hashes,          \* the list a provider's batch_payments returned
    tried,              \* the passes of a provider's retry loops, in order
    pc,                 \* concurrent payers: where each is in its
                        \* handle_402_response call
    paying,             \* concurrent payers: the locals of each call
    earlier,            \* <<q>> when the last two calls were both flushes
                        \* that raised, q the queue the first was called
                        \* on; <<>> otherwise
    answers             \* what the provider, the server and the audit
                        \* database answered during it

vars == <<deferred_payments, balance, op, args, preQueue, exc, flag, hash,
          wcalls, pcalls, logged, flushes, batch, seen, payments, resp,
          requests, reply, preBalance, answers, network, network_provider,
          address, private_key, shared_wallet, agents, agent_spending,
          detailed_spending, shared_wallet_manager, wallet_manager,
          processor_wallet, swarm_ref, first_wallet, config_max_agents,
          moved, shares, joined, report, steps, runs, tx_hashes, tried, earlier, pc,
          paying>>

swarmVars == <<shared_wallet, config_max_agents, moved, agents, agent_spending, detailed_spending,
               shared_wallet_manager, wallet_manager, processor_wallet,
               swarm_ref, first_wallet, shares, joined, report, steps,
               runs>>

NoArgs == [amount |-> 0, recipient |-> EmptyAddr, tool_name |-> "",
           network |-> "", agent |-> 0, agent_id |-> 0, to_agent_id |-> 0,
           method |-> "", task |-> <<>>, strategy |-> "", retries |-> 0]
NoResponse == Response(0, HAbsent, HAbsent, AAbsent, AAbsent, PlainHeaders)

\* The state after construction, for the given swarm configurations and
\* opening balances.
Constructed(configs, balances, capacity) ==
    /\ deferred_payments = <<>>
    /\ balance \in balances
    /\ op = "init"
    /\ args = NoArgs
    /\ preQueue = <<>>
    /\ exc = NoExc
    /\ flag = FALSE
    /\ hash = EmptyHash
    /\ wcalls = <<>>
    /\ pcalls = <<>>
    /\ logged = <<>>
    /\ flushes = 0
    /\ batch = NoBatch
    /\ seen = -1
    /\ payments = <<>>
    /\ resp = NoResponse
    /\ requests = <<>>
    /\ reply = NoReply
    /\ preBalance = balance
    /\ answers = DefaultEnv(0)
    /\ network = "base"
    /\ network_provider = Provider("base")
    /\ address = Addr(0)
    /\ private_key = "0xkey"
    /\ shared_wallet \in configs
    /\ config_max_agents = capacity
    /\ moved = TRUE
    /\ agents = NoMembers
    /\ joined = <<>>
    /\ agent_spending = NoMembers
    /\ detailed_spending = NoMembers
    /\ shared_wallet_manager = 0
    /\ wallet_manager = [a \in AgentObjects |-> a]
    /\ processor_wallet = [a \in AgentObjects |-> a]
    /\ swarm_ref = {}
    /\ first_wallet = 0
    /\ shares = NoMembers
    /\ report = NoReport
    /\ steps = <<>>
    /\ runs = <<>>
    /\ tx_hashes = <<>>
    /\ tried = <<>>
    /\ earlier = <<>>
    /\ pc = [p \in Payers |-> "idle"]
    /\ paying = [p \in Payers |-> NoCharge]

\* A processor and its wallet; the swarm configuration is the default one.
Init == Constructed({FALSE}, 0..MaxBalance, DefaultMaxAgents)

\* The state after a call name(a) whose effect is the result record r.
Logged(name, a, r, env) ==
    /\ UNCHANGED swarmVars
    /\ UNCHANGED <<tx_hashes, tried, pc, paying>>
    /\ earlier' = IF /\ name = "flush" /\ r.exc # NoExc
                     /\ op = "flush" /\ exc # NoExc
                  THEN <<preQueue>>
                  ELSE <<>>
    /\ op' = name
    /\ preBalance' = balance
    /\ answers' = env
    /\ args' = a
    /\ preQueue' = deferred_payments
    /\ deferred_payments' = r.queue
    /\ balance' = r.bal
    /\ exc' = r.exc
    /\ flag' = r.flag
    /\ hash' = r.hash
    /\ wcalls' = r.wcalls
    /\ pcalls' = r.pcalls
    /\ logged' = r.logged
    /\ flushes' = r.flushes
    /\ batch' = r.batch
    /\ seen' = r.seen
    /\ payments' = r.payments
    /\ requests' = r.requests
    /\ reply' = r.reply

\* A call that leaves the wallet's network, provider, address and key alone.
Recorded(name, a, r, env) ==
    /\ Logged(name, a, r, env)
    /\ UNCHANGED <<network, network_provider, address, private_key>>

Called(name, a, r, env) == Recorded(name, a, r, env) /\ resp' = NoResponse

\* A direct call of WalletManager.make_payment, the provider answering with
\* one of envs.
MakePaymentAnswered(envs) ==
    \E a \in ValidInputs \cup {x \in InvalidInputs : x.recipient = Addr(1)} :
        \E env \in (IF a.amount <= 0 THEN {RetryOk}
                    ELSE IF balance < a.amount
                    THEN {e \in envs : e.send = SendOk("0xabc")}
                    ELSE envs) :
            LET r == make_payment(a.amount, a.recipient, balance, env)
            IN  Called("make_payment",
                       [NoArgs EXCEPT !.amount = a.amount,
                                      !.recipient = a.recipient],
                       [Result(deferred_payments, r.bal) EXCEPT
                           !.exc = r.exc, !.hash = r.ret,
                           !.pcalls = r.pcalls], env)

MakePayment == MakePaymentAnswered(MakePaymentEnvs)

\* A direct payment between queue operations; the provider answers.
PayDirectly == MakePaymentAnswered({PayOk("0xabc")})

\* A direct call of WalletManager.get_balance.
GetBalance ==
    \E env \in {e \in MakePaymentEnvs : e.send = SendOk("0xabc")} :
        LET r == get_balance(balance, env)
        IN  Called("get_balance", NoArgs,
                   [Result(deferred_payments, balance) EXCEPT
                       !.exc = r.exc, !.seen = r.ret, !.pcalls = r.pcalls],
                   env)

\* A direct call of WalletManager.batch_payments.
BatchPayments ==
    \E ps \in BatchInputs :
        \E env \in BatchEnvs(ps, balance) :
            LET r == batch_payments(ps, balance, env)
            IN  Called("batch_payments", NoArgs,
                       [Result(deferred_payments, r.bal) EXCEPT
                           !.exc = r.exc, !.payments = ps,
                           !.pcalls = r.pcalls,
                           !.batch = [called |-> TRUE, raised |-> Raised(r),
                                      exc |-> r.exc, hashes |-> r.ret]],
                       env)

\* The answers that matter to one switch_network.
SwitchEnvs ==
    LET D == [solana |-> TRUE, ctor |-> TRUE, ping |-> BalOk, ledger |-> 0]
    IN  {[D EXCEPT !.ledger = b] : b \in {0, MaxBalance}}
        \cup {[D EXCEPT !.solana = FALSE], [D EXCEPT !.ctor = FALSE],
              [D EXCEPT !.ping = BalFail({"connection"})]}

\* WalletManager.switch_network(name).
SwitchNetwork ==
    \E name \in NetworkNames, env \in SwitchEnvs :
        LET r == switch_network(network, network_provider, balance, name, env)
        IN  /\ Logged("switch_network", [NoArgs EXCEPT !.network = name],
                      [Result(deferred_payments, r.bal) EXCEPT
                          !.exc = r.exc, !.pcalls = r.pcalls], env)
            /\ resp' = NoResponse
            /\ network' = r.network
            /\ network_provider' = r.provider
            /\ UNCHANGED <<address, private_key>>

\* PaymentProcessor.add_deferred_payment(amount, recipient, tool_name).
AddDeferred ==
    /\ Len(deferred_payments) < MaxQueue
    /\ \E a \in ValidInputs \cup InvalidInputs, tool_name \in Tools :
        \E env \in (IF a \in ValidInputs
                       /\ ThresholdReached(Len(deferred_payments) + 1)
                    THEN FlushEnvs(Append(deferred_payments,
                                     [amount |-> a.amount,
                                      recipient |-> a.recipient,
                                      tool_name |-> tool_name]), balance)
                    ELSE {DefaultEnv(0)}) :
            Called("add_deferred",
                   [NoArgs EXCEPT !.amount = a.amount,
                                  !.recipient = a.recipient,
                                  !.tool_name = tool_name],
                   add_deferred_payment(deferred_payments, balance, a.amount,
                                        a.recipient, tool_name, env), env)

\* PaymentProcessor.process_deferred_payments().
Flush ==
    \E env \in FlushEnvs(deferred_payments, balance) :
        Called("flush", NoArgs,
               process_deferred_payments(deferred_payments, balance, env),
               env)

\* PaymentProcessor.handle_402_response(response).
Handle402 ==
    \E response \in ValidResponses \cup InvalidResponses \cup OtherResponses :
        \E env \in HandleEnvs(response, balance) :
            /\ Recorded("handle_402", NoArgs,
                        handle_402_response(response, deferred_payments,
                                            balance, env), env)
            /\ resp' = response

\* Somebody else pays into or out of the wallet's address.
ExternalTransfer ==
    \E b \in 0..MaxBalance :
        /\ b # balance
        /\ Called("external", NoArgs, Result(deferred_payments, b),
                  DefaultEnv(0))

\* The processor and its wallet: every call.
Next == MakePayment \/ AddDeferred \/ Flush \/ Handle402 \/ ExternalTransfer
Spec == Init /\ [][Next]_vars

\* The deferred queue and the wallet behind it; handle_402_response never
\* reads or writes the queue.
NextDeferred == PayDirectly \/ AddDeferred \/ Flush \/ ExternalTransfer
SpecDeferred == Init /\ [][NextDeferred]_vars

\* HTTP 402 handling; it shares only the wallet balance with the queue.
NextHandle == Handle402 \/ ExternalTransfer
SpecHandle == Init /\ [][NextHandle]_vars

\* The audit trail of both flows.  handle_402_response neither reads nor
\* writes the queue, so the 402 flow is followed from an empty queue that
\* the call before left alone.
HandleOnEmptyQueue ==
    /\ deferred_payments = <<>>
    /\ preQueue = <<>>
    /\ Handle402
NextAudit == AddDeferred \/ Flush \/ HandleOnEmptyQueue \/ ExternalTransfer
SpecAudit == Init /\ [][NextAudit]_vars

\* AgentSwarm.get_agent_spending_breakdown(agent_id): the agent's spending
\* by tool, the empty dict when nothing is recorded for it.
get_agent_spending_breakdown(detailed, id) ==
    IF id \in DOMAIN detailed
    THEN [t \in {"tool"} |-> detailed[id]]
    ELSE [t \in {} |-> 0]

\* The swarm's fields as one record, and a swarm call that leaves S1.
SwarmState ==
    [shared_wallet |-> shared_wallet, max_agents |-> config_max_agents,
     agents |-> agents, joined |-> joined,
     agent_spending |-> agent_spending,
     detailed_spending |-> detailed_spending,
     shared_wallet_manager |-> shared_wallet_manager,
     wallet_manager |-> wallet_manager,
     processor_wallet |-> processor_wallet, swarm_ref |-> swarm_ref,
     exc |-> NoExc, flag |-> FALSE, hash |-> EmptyHash, wcalls |-> <<>>,
     shares |-> NoMembers, report |-> NoReport, steps |-> <<>>,
     runs |-> <<>>]

SwarmFields == {"agents", "joined", "agent_spending", "detailed_spending",
                "shared_wallet_manager", "wallet_manager",
                "processor_wallet", "swarm_ref"}

\* A swarm call name(a) that met the answers env and leaves S1.  A call
\* that changed nothing leaves the swarm as the call before it left it, so
\* what can follow it is followed from there.
SwarmLeft(name, a, S1, env) ==
    /\ moved
    /\ moved' = (\E f \in SwarmFields : S1[f] # SwarmState[f])
    /\ UNCHANGED config_max_agents
    /\ op' = name /\ args' = a /\ exc' = S1.exc /\ flag' = S1.flag
    /\ hash' = S1.hash /\ wcalls' = S1.wcalls /\ answers' = env
    /\ first_wallet' =
          IF /\ name = "add_agent" /\ S1.exc = NoExc
             /\ shared_wallet /\ first_wallet = 0
          THEN wallet_manager[a.agent]
          ELSE first_wallet
    /\ shared_wallet' = S1.shared_wallet
    /\ agents' = S1.agents
    /\ joined' = S1.joined
    /\ agent_spending' = S1.agent_spending
    /\ detailed_spending' = S1.detailed_spending
    /\ shared_wallet_manager' = S1.shared_wallet_manager
    /\ wallet_manager' = S1.wallet_manager
    /\ processor_wallet' = S1.processor_wallet
    /\ swarm_ref' = S1.swarm_ref
    /\ shares' = S1.shares
    /\ report' = S1.report
    /\ steps' = S1.steps
    /\ runs' = S1.runs
    /\ UNCHANGED <<deferred_payments, balance, preQueue, pcalls, logged,
                   flushes, batch, seen, payments, resp, requests, reply,
                   preBalance, network, network_provider, address,
                   private_key, tx_hashes, tried, earlier, pc, paying>>

\* The members of a set of agent ids, lowest first.
RECURSIVE InOrder(_)
InOrder(ids) ==
    IF ids = {} THEN <<>>
    ELSE LET lowest == CHOOSE i \in ids : \A j \in ids : i <= j
         IN  <<lowest>> \o InOrder(ids \ {lowest})

\* The same where no call that can follow reads the order in which the
\* dict holds its keys: the keys are then kept in one order.
SwarmAnswered(name, a, S1, env) ==
    SwarmLeft(name, a, [S1 EXCEPT !.joined = InOrder(DOMAIN S1.agents)],
              env)

SwarmCalled(name, a, S1) == SwarmAnswered(name, a, S1, DefaultEnv(0))

\* AgentSwarm.add_agent(agent), for the agent objects of objs.
AddAgentOf(objs) ==
    \E agent \in objs :
        SwarmCalled("add_agent", [NoArgs EXCEPT !.agent = agent],
                    add_agent(SwarmState, agent))
AddAgent == AddAgentOf(AgentObjects)

\* AgentSwarm.remove_agent(agent_id), for the agents of objs.
RemoveAgentOf(objs) ==
    \E id \in {agent_id(a) : a \in objs} :
        SwarmCalled("remove_agent", [NoArgs EXCEPT !.agent_id = id],
                    remove_agent(SwarmState, id))
RemoveAgent == RemoveAgentOf(AgentObjects)

\* AgentSwarm.update_agent_spending(agent_id, amount, tool_name), for the
\* agents of objs.
UpdateSpendingOf(objs, tool_name) ==
    /\ moved
    /\ \E id \in {agent_id(a) : a \in objs}, amount \in {1} :
        LET S1 == update_agent_spending(SwarmState, id, amount, tool_name)
        IN  /\ Total(S1.detailed_spending) <= MaxSpend
            /\ Spread(S1.agent_spending) <= MaxSpread
            /\ SwarmCalled("update_agent_spending",
                           [NoArgs EXCEPT !.agent_id = id,
                                          !.amount = amount,
                                          !.tool_name = tool_name],
                           S1)
UpdateSpending == UpdateSpendingOf(AgentObjects, "tool")

\* The agents the transfers and the cost splits are followed for, each
\* with an agent_id of its own, in a swarm of the default capacity.
Holders == {1, 2, 3}

AddHolder == AddAgentOf(Holders)
RemoveHolder == RemoveAgentOf(Holders)
\* update_agent_spending(agent_id, amount), without a tool name.
RecordSpending == UpdateSpendingOf(Holders, "")

\* The answers that matter to one transfer_to_agent, by the point it
\* reaches.
LiveBalances == {0, 2}
TransferEnvs(from, to, amount) ==
    LET D == [live |-> Live(2), mp |-> PayOk("0xabc")]
    IN  IF from \notin DOMAIN agents \/ to \notin DOMAIN agents THEN {D}
        ELSE {[D EXCEPT !.live = LiveFail]}
             \cup {[D EXCEPT !.live = Live(b)] :
                      b \in {x \in LiveBalances : x < amount}}
             \cup (IF shared_wallet
                   THEN {[D EXCEPT !.live = Live(b)] :
                            b \in {x \in LiveBalances : x >= amount}}
                   ELSE {[D EXCEPT !.live = Live(b), !.mp = mp] :
                            b \in {x \in LiveBalances : x >= amount},
                            mp \in {PayOk("0xabc"),
                                    [balq |-> BalSeq(0, {}),
                                     send |-> SendFail({"insufficient"})],
                                    [balq |-> BalSeq(0, {}),
                                     send |-> SendFail({"connection"})],
                                    [balq |-> BalSeq(max_balance_retries,
                                                     {"connection"}),
                                     send |-> SendOk("0xabc")]}})

\* AgentSwarm.transfer_to_agent(from_agent_id, to_agent_id, amount).
TransferToAgent ==
    /\ moved
    /\ \E from \in Holders, to \in Holders, amount \in {1, 2} :
        \E env \in TransferEnvs(from, to, amount) :
            LET S1 == transfer_to_agent(SwarmState, from, to, amount, env)
            IN  /\ Spread(S1.agent_spending) <= MaxSpread
                /\ SwarmAnswered("transfer_to_agent",
                                 [NoArgs EXCEPT !.agent_id = from,
                                                !.to_agent_id = to,
                                                !.amount = amount],
                                 S1, env)

\* AgentSwarm.reset_spending_tracking().
ResetSpending ==
    SwarmCalled("reset_spending_tracking", NoArgs,
                reset_spending_tracking(SwarmState))

\* AgentSwarm.split_costs(total_cost, method).
Costs == {6}
SplitCosts ==
    \E total_cost \in Costs, method \in CostSplittingMethod \cup {""} :
        SwarmCalled("split_costs",
                    [NoArgs EXCEPT !.amount = total_cost,
                                   !.method = method],
                    split_costs(SwarmState, total_cost, method))

\* The swarm: membership and spending.
NextSwarm == AddAgent \/ RemoveAgent \/ UpdateSpending \/ ResetSpending
InitSwarm == Constructed(BOOLEAN, {0}, max_agents)
SpecSwarm == InitSwarm /\ [][NextSwarm]_vars

\* The swarm's ledger: who owes what, and the transfers between members.
NextLedger ==
    AddHolder \/ RemoveHolder \/ RecordSpending \/ TransferToAgent
    \/ ResetSpending \/ SplitCosts
InitLedger == Constructed(BOOLEAN, {0}, DefaultMaxAgents)
SpecLedger == InitLedger /\ [][NextLedger]_vars

\* The tasks the swarm is given: s sentences with ". " between them,
\* three sentences that end in a full stop, and three of which the first
\* ends in one.
MaxSentences == 5
TaskOf(s) ==
    [i \in 1..(2 * s - 1) |-> IF i % 2 = 1 THEN (i + 1) \div 2 ELSE Sep]
Tasks ==
    {TaskOf(s) : s \in 0..MaxSentences}
    \cup {<<1, Sep, 2, Sep, 3, Dot>>, <<1, Dot, Sep, 2, Sep, 3>>}

\* add_agent and remove_agent where the calls that follow read the order
\* in which the dict holds its keys.
JoinSwarm ==
    \E agent \in Holders :
        SwarmLeft("add_agent", [NoArgs EXCEPT !.agent = agent],
                  add_agent(SwarmState, agent), DefaultEnv(0))
LeaveSwarm ==
    \E id \in Holders :
        SwarmLeft("remove_agent", [NoArgs EXCEPT !.agent_id = id],
                  remove_agent(SwarmState, id), DefaultEnv(0))

\* AgentSwarm.collaborate(task, distribution_strategy), whatever the
\* members do when they are run.  The task is read by "divide" alone.  The
\* collaborations are followed while the spending of the swarm, in cents,
\* is within MaxSpread.
MemberRuns ==
    {run \in [Holders -> RunOutcomes] :
        \A id \in Holders \ DOMAIN agents : run[id] = Returns(Plain)}
Collaborate ==
    /\ moved
    /\ Spread(agent_spending) <= MaxSpread
    /\ \E strategy \in Strategies \cup {"auction"}, run \in MemberRuns :
       \E task \in IF strategy = "divide" THEN Tasks ELSE {TaskOf(2)} :
        LET col == collaborate(SwarmState, task, strategy, run)
        IN  SwarmLeft("collaborate",
                      [NoArgs EXCEPT !.task = task, !.strategy = strategy],
                      [SwarmState EXCEPT !.exc = col.exc,
                                         !.report = col.report,
                                         !.runs = col.runs],
                      [run |-> run])

\* AgentSwarm.collaborate_with_recovery(task, max_retries).
RetryBudgets == {0, 1, 2}
CollaborateWithRecovery ==
    /\ moved
    /\ Spread(agent_spending) <= MaxSpread
    /\ \E retries \in RetryBudgets :
        \E end \in collaborate_with_recovery(SwarmState, TaskOf(2),
                                              retries) :
            SwarmLeft("collaborate_with_recovery",
                      [NoArgs EXCEPT !.task = TaskOf(2),
                                     !.retries = retries],
                      [end.S EXCEPT !.report = end.report,
                                    !.steps = end.steps,
                                    !.runs = end.runs],
                      DefaultEnv(0))

\* The swarm at work: the members together on a task.
NextCollab ==
    JoinSwarm \/ LeaveSwarm \/ Collaborate \/ CollaborateWithRecovery
InitCollab == Constructed(BOOLEAN, {0}, DefaultMaxAgents)
SpecCollab == InitCollab /\ [][NextCollab]_vars

\* The wallet on its own.
NextWallet ==
    MakePayment \/ GetBalance \/ BatchPayments \/ SwitchNetwork
    \/ ExternalTransfer
SpecWallet == Init /\ [][NextWallet]_vars

\* ------------------------------------------------- the network providers
\* The longest list a provider's batch_payments is called with.
MaxBatch == 2

Entry(amount, recipient) == [amount |-> amount, recipient |-> recipient]
ProviderEntries == {Entry(1, Addr(1)), Entry(0, Addr(1)), Entry(1, ShortAddr)}
ProviderBatches == SeqsUpTo(ProviderEntries, MaxBatch)

\* The node's answers to the passes over one payment: k passes that end as
\* fail, then passes that are broadcast and confirmed with reference r.
PassSeq(k, fail, r) ==
    [n \in 1..batch_max_retries |-> IF n <= k THEN fail ELSE Broadcast(r)]
BasePasses ==
    {PassSeq(0, Refused({}), r) : r \in TxRefs}
    \cup {PassSeq(k, Refused({"connection"}), "0xabc") :
             k \in 1..batch_max_retries}
SolanaPasses ==
    BasePasses
    \cup {PassSeq(k, Unconfirmed("0xlost", {"timeout"}), "0xabc") :
             k \in 1..batch_max_retries}

\* A provider call name(ps) that met the answers env and did r.  A
\* provider keeps nothing between calls but the ledger, and every ledger
\* balance is an initial state: each call is followed from there.
ProviderLeft(name, a, ps, r, h, env) ==
    /\ op = "init"
    /\ op' = name /\ args' = a /\ payments' = ps /\ answers' = env
    /\ exc' = r.exc /\ hash' = h /\ tx_hashes' = r.ret
    /\ tried' = r.tried
    /\ preBalance' = balance /\ balance' = r.bal
    /\ UNCHANGED swarmVars
    /\ UNCHANGED <<deferred_payments, preQueue, flag, wcalls, pcalls,
                   logged, flushes, batch, seen, resp, requests, reply,
                   network, network_provider, address, private_key,
                   earlier, pc, paying>>

\* BaseNetworkProvider.batch_payments(private_key, payments).
BaseBatchPayments ==
    /\ op = "init"
    /\ \E ps \in ProviderBatches :
        \E nonce \in (IF ps = <<>> THEN {TRUE} ELSE BOOLEAN) :
        \E outs \in [1..Len(ps) -> BasePasses] :
            /\ \A i \in 1..Len(ps) :
                  (~nonce \/ ~is_address(ps[i].recipient)
                     \/ ps[i].amount <= 0)
                     => outs[i] = PassSeq(0, Refused({}), "0xabc")
            /\ LET env == [nonce |-> nonce, outs |-> outs]
                   r == BaseNetworkProvider_batch_payments(ps, balance, env)
               IN  ProviderLeft("base_batch_payments", NoArgs, ps, r,
                                EmptyHash, env)

\* SolanaNetworkProvider.batch_payments(private_key, payments).
SolanaBatchPayments ==
    /\ op = "init"
    /\ \E ps \in ProviderBatches :
        \E outs \in [1..Len(ps) -> SolanaPasses] :
            /\ \A i \in 1..Len(ps) :
                  ps[i].amount <= 0
                     => outs[i] = PassSeq(0, Refused({}), "0xabc")
            /\ LET env == [nonce |-> TRUE, outs |-> outs]
                   r == SolanaNetworkProvider_batch_payments(ps, balance,
                                                             env)
               IN  ProviderLeft("solana_batch_payments", NoArgs, ps, r,
                                EmptyHash, env)

\* What the node can answer in one pass of send_payment.
SendPasses ==
    {Broadcast("0xabc"), Broadcast("0xdef"), Refused({"connection"}),
     Refused({"insufficient", "funds"}),
     Unconfirmed("0xabc", {"timeout"}),
     Unconfirmed("0xabc", {"connection"})}

\* BaseNetworkProvider.send_payment(private_key, recipient, amount).
SendPayment ==
    /\ op = "init"
    /\ \E e \in ProviderEntries :
        \E outs \in [1..send_max_retries -> SendPasses] :
            /\ (~is_address(e.recipient) \/ e.amount <= 0)
                  => outs = [k \in 1..send_max_retries |-> Broadcast("0xabc")]
            /\ LET r == BaseNetworkProvider_send_payment(e.recipient,
                            e.amount, balance, outs)
               IN  ProviderLeft("send_payment",
                                [NoArgs EXCEPT !.amount = e.amount,
                                               !.recipient = e.recipient],
                                <<>>, [r EXCEPT !.ret = <<>>], r.ret,
                                [nonce |-> TRUE, outs |-> outs])

NextProvider == BaseBatchPayments \/ SolanaBatchPayments \/ SendPayment
InitProvider == Constructed({FALSE}, {0, 1, MaxBalance}, DefaultMaxAgents)
SpecProvider == InitProvider /\ [][NextProvider]_vars

\* ---------------------------------------------------- concurrent payers
\* Two agents answer 402 responses through one wallet at the same time.
\* A step is what one call does up to and including its next exchange with
\* the ledger; nothing but the ledger is shared.
Charges == {1, 2}

RaceStep(p, at, locals, bal) ==
    /\ pc' = [pc EXCEPT ![p] = at]
    /\ paying' = [paying EXCEPT ![p] = locals]
    /\ balance' = bal
    /\ UNCHANGED swarmVars
    /\ UNCHANGED <<deferred_payments, op, args, preQueue, exc, flag, hash,
                   wcalls, pcalls, logged, flushes, batch, seen, payments,
                   resp, requests, reply, preBalance, answers, network,
                   network_provider, address, private_key, tx_hashes, tried,
                   earlier>>

\* handle_402_response(response) for a 402 response with valid headers, up
\* to its own balance check.
Handle402Check ==
    \E p \in Payers, amount \in Charges :
        /\ pc[p] \in {"idle", "done"}
        /\ LET mine == [NoCharge EXCEPT !.amount = amount, !.seen = balance]
           IN  IF ChargeCovered(balance, amount)
               THEN RaceStep(p, "checked", mine, balance)
               ELSE RaceStep(p, "done",
                        [mine EXCEPT !.exc = InsufficientFundsError(
                                        amount, balance, {"insufficient"})],
                        balance)

\* wallet_manager.make_payment(amount, recipient) up to its balance check.
MakePaymentCheck ==
    \E p \in Payers :
        /\ pc[p] = "checked"
        /\ LET mine == paying[p]
           IN  IF FundsShort(balance, mine.amount)
               THEN RaceStep(p, "done",
                        [mine EXCEPT !.exc = PaymentErrorRaised(
                              InsufficientBalance(balance, mine.amount),
                              mine.amount, mine.seen)],
                        balance)
               ELSE RaceStep(p, "ready", mine, balance)

\* What the node answers to the passes of the send: it takes each transfer
\* and delivers its receipt, or it refuses a transfer the balance does not
\* cover ("execution reverted: transfer amount exceeds balance").
RaceSends(bal, amount) ==
    {[k \in 1..send_max_retries |-> Broadcast("0xabc")]}
    \cup (IF bal < amount
          THEN {[k \in 1..send_max_retries |->
                    Refused({"execution", "reverted", "balance"})]}
          ELSE {})

\* The send of make_payment and what follows it in handle_402_response;
\* the replay is answered at once.
MakePaymentSend ==
    \E p \in Payers :
        /\ pc[p] = "ready"
        /\ \E outs \in RaceSends(balance, paying[p].amount) :
            LET mine == paying[p]
                r == BaseNetworkProvider_send_payment(Addr(1), mine.amount,
                                                      balance, outs)
            IN  RaceStep(p, "done",
                    [mine EXCEPT
                       !.short = balance < mine.amount,
                       !.hash = r.ret,
                       !.exc = IF r.exc = NoExc THEN NoExc
                               ELSE PaymentErrorRaised(
                                        SendErrorRaised(r.exc), mine.amount,
                                        mine.seen)],
                    r.bal)

NextRace == Handle402Check \/ MakePaymentCheck \/ MakePaymentSend
SpecRace == Init /\ [][NextRace]_vars

\* ================================================ what the claims speak of
\* The queue the flush of the last call started from (flushes = 1).
FlushQueue ==
    IF op = "add_deferred"
    THEN Append(preQueue, [amount |-> args.amount,
                           recipient |-> args.recipient,
                           tool_name |-> args.tool_name])
    ELSE preQueue

AllItems(q) == [i \in 1..Len(q) |->
                   [amount |-> q[i].amount, recipient |-> q[i].recipient]]

\* The amount and recipient of every wallet_manager call of one kind.
RECURSIVE CallItems(_, _)
CallItems(calls, fn) ==
    IF calls = <<>> THEN <<>>
    ELSE (IF Head(calls).fn = fn THEN <<Head(calls).items>> ELSE <<>>)
         \o CallItems(Tail(calls), fn)

\* The queue entries whose batch position carries a failure marker.
RECURSIVE FailedItems(_, _)
FailedItems(q, hashes) ==
    IF q = <<>> \/ hashes = <<>> THEN <<>>
    ELSE (IF Head(hashes).failed
          THEN <<<<[amount |-> Head(q).amount,
                    recipient |-> Head(q).recipient]>>>>
          ELSE <<>>)
         \o FailedItems(Tail(q), Tail(hashes))

BatchReturned == flushes = 1 /\ batch.called /\ ~batch.raised
SomeMarkedFailed == \E i \in DOMAIN batch.hashes : batch.hashes[i].failed
SomeMarkedOk == \E i \in DOMAIN batch.hashes : ~batch.hashes[i].failed
NoPaymentCall ==
    /\ \A i \in DOMAIN wcalls : wcalls[i].fn = "get_balance"
    /\ \A i \in DOMAIN pcalls : pcalls[i] = "get_balance"

\* C1: a flush of a non-empty queue whose total exceeds the balance the
\* wallet reports raises InsufficientFundsError, makes no batch and no single
\* payment call, and leaves the queue as it was, entry by entry.
C1_InsufficientFundsKeepsQueue ==
    (flushes = 1 /\ FlushQueue # <<>> /\ seen # -1
        /\ SumAmounts(FlushQueue) > seen)
    => /\ exc.type = "InsufficientFundsError"
       /\ NoPaymentCall
       /\ deferred_payments = FlushQueue

C1_Witness ==
    /\ op = "flush" /\ flushes = 1 /\ Len(preQueue) = 3
    /\ seen # -1 /\ SumAmounts(preQueue) > seen
    /\ exc.type = "InsufficientFundsError"
    /\ deferred_payments = preQueue

C3_QueueEmptyAfterBatchReturns ==
    BatchReturned => (exc = NoExc /\ deferred_payments = <<>>)

C3_Witness ==
    /\ BatchReturned /\ SomeMarkedFailed /\ SomeMarkedOk
    /\ \E i \in DOMAIN payments : payments[i].status = "failed"
    /\ deferred_payments = <<>>

\* C4 as claimed: whenever the batch result holds a failure marker (some or
\* all positions), each failed item gets exactly one make_payment with its
\* amount and recipient.
C4_RetryForEveryFailureMarker ==
    (BatchReturned /\ SomeMarkedFailed)
    => CallItems(wcalls, "make_payment")
         = FailedItems(FlushQueue, batch.hashes)

\* C4: when the batch result holds a failure marker and a successful
\* reference, each failed item gets exactly one make_payment with its amount
\* and recipient, in queue order, within the flush.
C4_RetryAfterPartialFailure ==
    (BatchReturned /\ SomeMarkedFailed /\ SomeMarkedOk)
    => CallItems(wcalls, "make_payment")
         = FailedItems(FlushQueue, batch.hashes)

C4_Witness ==
    /\ BatchReturned /\ Len(FlushQueue) = 3
    /\ batch.hashes[1].failed /\ ~batch.hashes[2].failed
    /\ batch.hashes[3].failed
    /\ Len(CallItems(wcalls, "make_payment")) = 2
    /\ FlushQueue[1].recipient # FlushQueue[3].recipient

AllCompleted == \A i \in DOMAIN payments : payments[i].status = "completed"

\* C5 as claimed: with a failure marker in the batch result, the flush
\* returns true exactly when every item ended completed, retries included.
C5_ResultCountsRetries ==
    (BatchReturned /\ SomeMarkedFailed) => (flag <=> AllCompleted)

\* C5: the returned boolean ignores the individual retries: a flush that
\* made an individual retry returns false, also when every retry succeeded.
C5_ResultIgnoresRetries ==
    (BatchReturned /\ CallItems(wcalls, "make_payment") # <<>>)
    => flag = FALSE

C5_Witness ==
    /\ BatchReturned /\ Len(payments) = 3
    /\ Len(CallItems(wcalls, "make_payment")) = 2
    /\ AllCompleted
    /\ flag = FALSE

\* C6: process_deferred_payments returns True exactly when the queue was
\* empty or every position of the batch result is a successful reference.
C6_TrueIffNoFailureMarker ==
    (flushes = 1 /\ exc = NoExc)
    => (flag <=> (FlushQueue = <<>> \/ (batch.called /\ ~SomeMarkedFailed)))

C6_Witness ==
    /\ op = "flush" /\ BatchReturned /\ Len(preQueue) = 2
    /\ ~batch.hashes[1].failed /\ batch.hashes[2].failed
    /\ AllCompleted
    /\ flag = FALSE

ValidArgs == args.amount > 0 /\ args.recipient \in ValidAddrs

\* C7 as claimed: the first N-1 valid adds flush nothing and the N-th makes
\* one flush attempt with one batch call holding all N items.
C7_ThresholdAlwaysBatches ==
    (op = "add_deferred" /\ ValidArgs)
    => /\ (Len(preQueue) + 1 < payment_threshold
             => flushes = 0 /\ wcalls = <<>>)
       /\ (Len(preQueue) + 1 = payment_threshold
             => /\ flushes = 1
                /\ CallItems(wcalls, "batch_payments")
                     = <<AllItems(FlushQueue)>>)

\* C7: the first N-1 valid adds flush nothing; the N-th makes one flush
\* attempt within the call, which makes one batch call holding all N items
\* if its balance query returned at least the queue's total and no batch
\* call otherwise.
C7_ThresholdFlushesOnce ==
    (op = "add_deferred" /\ ValidArgs)
    => /\ (Len(preQueue) + 1 < payment_threshold
             => flushes = 0 /\ wcalls = <<>>)
       /\ (Len(preQueue) + 1 = payment_threshold
             => /\ flushes = 1
                /\ CallItems(wcalls, "batch_payments")
                     = IF seen # -1 /\ seen >= SumAmounts(FlushQueue)
                       THEN <<AllItems(FlushQueue)>>
                       ELSE <<>>)

C7_Witness ==
    /\ op = "add_deferred" /\ ValidArgs
    /\ Len(preQueue) + 1 = payment_threshold
    /\ flushes = 1
    /\ CallItems(wcalls, "batch_payments") = <<AllItems(FlushQueue)>>
    /\ deferred_payments = <<>>

\* C8: add_deferred_payment and make_payment with an amount <= 0 raise the
\* amount error without any wallet or provider call, without a flush, and
\* with the queue unchanged.
C8_NonPositiveAmountRejected ==
    (op \in {"add_deferred", "make_payment"} /\ args.amount <= 0)
    => /\ exc.type = "ValueError" /\ "positive" \in exc.msg
       /\ wcalls = <<>> /\ pcalls = <<>>
       /\ flushes = 0
       /\ deferred_payments = preQueue

C8_Witness ==
    /\ op = "add_deferred" /\ args.amount = 0
    /\ args.recipient \in ValidAddrs
    /\ Len(preQueue) + 1 = payment_threshold
    /\ exc.type = "ValueError"
    /\ deferred_payments = preQueue

ParsedCharge == parse_payment_headers(resp)
Charged == op = "handle_402" /\ resp.status = 402 /\ ParsedCharge.ok

\* C9: in handle_402_response, a reported balance below the parsed amount
\* raises InsufficientFundsError with that amount and that balance; no
\* make_payment is called, nothing is sent and no replay is issued.
C9_EarlyInsufficientFunds ==
    (Charged /\ seen # -1 /\ seen < ParsedCharge.amount)
    => /\ exc.type = "InsufficientFundsError"
       /\ exc.required = ParsedCharge.amount
       /\ exc.available = seen
       /\ NoPaymentCall
       /\ requests = <<>>

C9_Witness ==
    /\ Charged /\ seen = 1 /\ ParsedCharge.amount = 2
    /\ exc.type = "InsufficientFundsError"
    /\ wcalls = <<WCall("get_balance", <<>>)>>

ProofHeadersSet(h, ref) ==
    /\ {"X-Payment-Hash", "Payment-Hash"} \subseteq DOMAIN h
    /\ h["X-Payment-Hash"] = ref
    /\ h["Payment-Hash"] = ref

\* C10: a response that is not a 402 is returned as it is, without payment.
\* A 402 with valid headers and a covering balance makes exactly one
\* make_payment for the parsed amount and recipient; once it returned a
\* reference every replay carries it in X-Payment-Hash and Payment-Hash, and
\* a first replay answer other than 402 is returned after that one request.
C10_PayOnceThenReplay ==
    /\ (op = "handle_402" /\ resp.status # 402)
       => /\ reply = OriginalReply(resp.status) /\ exc = NoExc
          /\ wcalls = <<>> /\ pcalls = <<>> /\ requests = <<>>
    /\ (Charged /\ seen # -1 /\ seen >= ParsedCharge.amount)
       => /\ CallItems(wcalls, "make_payment")
               = << <<[amount |-> ParsedCharge.amount,
                       recipient |-> ParsedCharge.recipient]>> >>
          /\ Len(payments) = 1
          /\ (payments[1].tx_hash.ref # ""
                => /\ requests # <<>>
                   /\ \A i \in DOMAIN requests :
                         ProofHeadersSet(requests[i].headers,
                                         payments[1].tx_hash.ref)
                   /\ (requests[1].met \in ReplayStatuses \ {"402"}
                         => /\ reply = ReplayReply(
                                           StatusCode(requests[1].met), 1)
                            /\ Len(requests) = 1
                            /\ exc = NoExc))
          /\ (payments[1].tx_hash.ref = "" => requests = <<>>)

C10_Witness ==
    /\ Charged /\ resp.req_headers = StaleHeaders
    /\ reply = ReplayReply(200, 1)
    /\ Len(requests) = 1
    /\ requests[1].headers["X-Payment-Hash"] = "0xdef"
    /\ Len(CallItems(wcalls, "make_payment")) = 1

\* The last call paid and went on to replay the request.
Replayed == op = "handle_402" /\ requests # <<>>
AllMet(S) == \A i \in DOMAIN requests : requests[i].met \in S

C12_TransportErrorCarriesAttemptCount ==
    (Replayed /\ AllMet({"timeout", "connection"}))
    => /\ Len(requests) = max_retries
       /\ exc.type = "NetworkError"
       /\ exc.retry_count = max_retries

\* C13: a Payment's status changes once, from pending to completed or to
\* failed, and never after it was logged: the payment handle_402_response
\* logged as completed is not set to failed or logged as failed afterwards,
\* and a batch item logged as failed keeps its status and reference while
\* its individual retry is made.
C13_LoggedPaymentNeverChanges ==
    /\ (op = "handle_402" /\ logged # <<>> /\ logged[1].status = "completed")
       => /\ payments[1] = logged[1]
          /\ \A i \in DOMAIN logged : logged[i].status = "completed"
    /\ (op \in {"flush", "add_deferred"} /\ BatchReturned
          /\ Len(logged) >= Len(payments))
       => \A i \in DOMAIN payments :
             logged[i].status = "failed" => payments[i] = logged[i]

\* What a caller can observe of a call: what it returned or raised, the
\* payments it made, the replays it issued and the queue it left.
Outcome(r) ==
    [exc |-> r.exc, flag |-> r.flag, reply |-> r.reply, queue |-> r.queue,
     bal |-> r.bal, wcalls |-> r.wcalls, pcalls |-> r.pcalls,
     requests |-> r.requests]
Observed ==
    [exc |-> exc, flag |-> flag, reply |-> reply,
     queue |-> deferred_payments, bal |-> balance, wcalls |-> wcalls,
     pcalls |-> pcalls, requests |-> requests]
AuditFailed == answers.db = <<FALSE, FALSE>>
AuditWorks(env) == [env EXCEPT !.db = <<TRUE, TRUE>>]

\* C14: a process_deferred_payments or handle_402_response whose audit
\* writes failed returned or raised, paid, replayed and left the queue as
\* the same call with the same answers and a working audit database does.
C14_AuditFailureChangesNothing ==
    /\ (op = "flush" /\ AuditFailed)
       => Observed = Outcome(process_deferred_payments(
                                 preQueue, preBalance, AuditWorks(answers)))
    /\ (op = "add_deferred" /\ AuditFailed)
       => Observed = Outcome(add_deferred_payment(
                                 preQueue, preBalance, args.amount,
                                 args.recipient, args.tool_name,
                                 AuditWorks(answers)))
    /\ (op = "handle_402" /\ AuditFailed)
       => Observed = Outcome(handle_402_response(
                                 resp, preQueue, preBalance,
                                 AuditWorks(answers)))

C14_Witness ==
    /\ op = "flush" /\ AuditFailed /\ BatchReturned
    /\ SomeMarkedFailed /\ SomeMarkedOk
    /\ AllCompleted /\ logged = <<>>
    /\ deferred_payments = <<>>

Count(calls, fn) == Cardinality({i \in DOMAIN calls : calls[i] = fn})
BalanceAnswered ==
    op = "make_payment" /\ args.amount > 0
    /\ \E i \in DOMAIN answers.balq : answers.balq[i].ok

\* C15: make_payment with a positive amount queries the provider's balance
\* on every call; with that balance below the amount it raises the
\* insufficient-balance ValueError and does not call send_payment; with the
\* balance at or above the amount it calls send_payment exactly once and
\* returns the reference send_payment returned.
C15_LiveBalanceDecidesSend ==
    (op = "make_payment" /\ args.amount > 0)
    => /\ pcalls # <<>> /\ pcalls[1] = "get_balance"
       /\ (BalanceAnswered /\ preBalance < args.amount)
          => /\ exc = InsufficientBalance(preBalance, args.amount)
             /\ Count(pcalls, "send_payment") = 0
             /\ balance = preBalance
       /\ (BalanceAnswered /\ preBalance >= args.amount)
          => /\ Count(pcalls, "send_payment") = 1
             /\ (answers.send.ok
                   => /\ exc = NoExc
                      /\ hash = OkHash(answers.send.ref)
                      /\ balance = preBalance - args.amount)

C15_Witness ==
    /\ op = "make_payment" /\ args.amount = 2 /\ preBalance = 2
    /\ BalanceAnswered
    /\ pcalls = <<"get_balance", "send_payment">>
    /\ hash = OkHash("0xdef") /\ balance = 0

FirstAnswerAt(outs) == CHOOSE i \in DOMAIN outs :
    outs[i].ok /\ \A j \in 1..(i - 1) : ~outs[j].ok

\* C16 as claimed: WalletManager.get_balance queries again after a failed
\* query, up to 3 queries in all, and returns the first answer; an error
\* reaches the caller only after the third failure in a row.
C16_GetBalanceRetries ==
    op = "get_balance"
    => /\ (\E i \in DOMAIN answers.balq : answers.balq[i].ok)
          => /\ exc = NoExc /\ seen = preBalance
             /\ Len(pcalls) = FirstAnswerAt(answers.balq)
       /\ (exc # NoExc => Len(pcalls) = max_balance_retries)

\* C16: WalletManager.get_balance queries the provider exactly once: it
\* returns that query's answer, and a failure of that one query reaches the
\* caller at once as the provider's error.
C16_GetBalanceQueriesOnce ==
    op = "get_balance"
    => /\ pcalls = <<"get_balance">>
       /\ (answers.balq[1].ok => exc = NoExc /\ seen = preBalance)
       /\ (~answers.balq[1].ok
             => /\ exc = Exc("RuntimeError", answers.balq[1].msg)
                /\ seen = -1)
       /\ balance = preBalance

C16_Witness ==
    /\ op = "get_balance"
    /\ ~answers.balq[1].ok /\ answers.balq[2].ok
    /\ exc.type = "RuntimeError" /\ pcalls = <<"get_balance">>

SendFailed ==
    op = "make_payment" /\ Count(pcalls, "send_payment") = 1
    /\ ~answers.send.ok
BalanceWorded(m) == "insufficient" \in m \/ "balance" \in m

\* C17: when the provider's send_payment fails inside make_payment with a
\* message that speaks of the balance, the balance is queried again and the
\* insufficient-balance error raised carries the balance that query
\* returned; any other failure of send_payment raises the payment-failed
\* RuntimeError.
C17_FreshBalanceInError ==
    SendFailed
    => IF BalanceWorded(answers.send.msg)
       THEN /\ pcalls[Len(pcalls)] = "get_balance"
            /\ exc.type = "ValueError"
            /\ "insufficient" \in exc.msg
            /\ exc.available = balance
       ELSE exc = Exc("RuntimeError", answers.send.msg)

BatchCall == op = "batch_payments"
EntryValid(p) == p.amount > 0 /\ ~IsEmptyStr(p.recipient)
AllEntriesValid == \A i \in DOMAIN payments : EntryValid(payments[i])
BatchBalanceAnswered == \E i \in DOMAIN answers.balq : answers.balq[i].ok

\* C18: WalletManager.batch_payments with an entry of amount <= 0 or empty
\* recipient at any position raises ValueError without any provider call;
\* with every entry valid, a live balance below the sum of the amounts
\* raises the insufficient-balance error with nothing sent, and a balance
\* at or above the sum leads to exactly one batch call of the provider.
C18_ValidateAllThenOneCheck ==
    BatchCall
    => /\ ~AllEntriesValid
          => /\ exc = Exc("ValueError", {"invalid"})
             /\ pcalls = <<>> /\ balance = preBalance
       /\ (AllEntriesValid /\ BatchBalanceAnswered
             /\ preBalance < SumAmounts(payments))
          => /\ exc = InsufficientBalance(preBalance, SumAmounts(payments))
             /\ Count(pcalls, "batch_payments") = 0
             /\ balance = preBalance
       /\ (AllEntriesValid /\ BatchBalanceAnswered
             /\ preBalance >= SumAmounts(payments))
          => Count(pcalls, "batch_payments") = 1

C18_Witness ==
    /\ BatchCall /\ Len(payments) = 3
    /\ EntryValid(payments[1]) /\ EntryValid(payments[2])
    /\ ~EntryValid(payments[3])
    /\ preBalance >= 3
    /\ exc.type = "ValueError" /\ pcalls = <<>>

Identity == <<network, network_provider, address, private_key>>
Switched == op' = "switch_network"
Built == \E i \in DOMAIN pcalls' :
            pcalls'[i] \in {Provider("base"), Provider("solana")}

\* C19: switch_network to the network the wallet is on changes nothing and
\* builds no provider; a switch to another network that succeeds sets the
\* name and the provider together after the new provider answered the
\* balance query; when building the provider or that query fails, network,
\* provider, address and key are as before the call.
C19_SwitchIsAllOrNothing ==
    [][Switched =>
         /\ Lower(args'.network) = Lower(network)
              => /\ Identity' = Identity /\ exc' = NoExc /\ ~Built
                 /\ balance' = balance
         /\ exc' # NoExc => Identity' = Identity /\ balance' = balance
         /\ (exc' = NoExc /\ Lower(args'.network) # Lower(network))
              => /\ network' = Lower(args'.network)
                 /\ network_provider' = Provider(network')
                 /\ pcalls' = <<network_provider', "get_balance">>
                 /\ answers'.ping.ok
                 /\ address' = address /\ private_key' = private_key
         /\ network' # network <=> network_provider' # network_provider
    ]_vars

C19_Witness ==
    /\ op = "switch_network" /\ args.network = "SOLANA"
    /\ exc.type = "ConnectionError"
    /\ pcalls = <<Provider("solana"), "get_balance">>
    /\ network = "base" /\ network_provider = Provider("base")

Members == DOMAIN agents
AddRefused(a) == AtCapacity(agents, config_max_agents) \/ agent_id(a) \in Members

\* C20: the swarm never holds more than max_agents members, every member
\* is filed under its own agent_id and has a spending entry; add_agent on a
\* full swarm or with an agent_id already present raises ValueError and
\* leaves the membership, the spending map and the agent's wallet
\* references as they were.
C20_CapacityAndUniqueIds ==
    /\ [](/\ Cardinality(Members) <= config_max_agents
          /\ \A id \in Members : agent_id(agents[id]) = id
          /\ DOMAIN agent_spending = Members)
    /\ [][op' = "add_agent" =>
            IF AddRefused(args'.agent)
            THEN /\ exc'.type = "ValueError"
                 /\ agents' = agents
                 /\ agent_spending' = agent_spending
                 /\ wallet_manager' = wallet_manager
                 /\ processor_wallet' = processor_wallet
                 /\ shared_wallet_manager' = shared_wallet_manager
            ELSE /\ exc' = NoExc
                 /\ agents' = Put(agents, agent_id(args'.agent), args'.agent)
       ]_vars

C20_Witness ==
    /\ op = "add_agent" /\ exc.type = "ValueError"
    /\ "capacity" \in exc.msg
    /\ Cardinality(Members) = max_agents
    /\ shared_wallet
    /\ agent_id(args.agent) \notin Members
    /\ wallet_manager[args.agent] = args.agent
    /\ \E id \in Members : agent_spending[id] > 0

\* C21: in a shared-wallet swarm the shared wallet is the wallet the first
\* agent ever added came with, whatever was added or removed since, and
\* every member's wallet_manager and its payment processor's wallet_manager
\* are that one instance.
C21_SharedWalletIsFirstAgents ==
    shared_wallet
    => /\ shared_wallet_manager = first_wallet
       /\ \A id \in Members :
             /\ first_wallet # 0
             /\ wallet_manager[agents[id]] = first_wallet
             /\ processor_wallet[agents[id]] = first_wallet

C21_Witness ==
    /\ shared_wallet
    /\ op = "add_agent" /\ exc = NoExc
    /\ Cardinality(Members) = max_agents
    /\ \A id \in Members : agents[id] # first_wallet
    /\ wallet_manager[args.agent] = first_wallet

\* C22: remove_agent returns True exactly when the agent was a member and
\* otherwise returns False and changes nothing; after a successful remove
\* neither a cumulative spend nor a per-tool breakdown of that agent is
\* left, and an agent added under an id starts with zero spend and an
\* empty breakdown.
C22_RemoveClearsSpending ==
    /\ [][op' = "remove_agent" =>
            LET id == args'.agent_id
            IN  IF id \in Members
                THEN /\ flag' /\ exc' = NoExc
                     /\ id \notin DOMAIN agents'
                     /\ id \notin DOMAIN agent_spending'
                     /\ get_agent_spending_breakdown(detailed_spending', id)
                           = [t \in {} |-> 0]
                ELSE /\ ~flag' /\ exc' = NoExc
                     /\ UNCHANGED swarmVars
       ]_vars
    /\ [][(op' = "add_agent" /\ exc' = NoExc) =>
            LET id == agent_id(args'.agent)
            IN  /\ agent_spending'[id] = 0
                /\ get_agent_spending_breakdown(detailed_spending', id)
                      = [t \in {} |-> 0]
       ]_vars

\* The transfer that was made last, and the payments it made.
Transferred == op = "transfer_to_agent"
PaymentCalls(calls) == SelectSeq(calls, LAMBDA c : c.fn = "make_payment")
WalletCalls(calls) == SelectSeq(calls, LAMBDA c : c.on = "wallet")

\* C24: with individual wallets, transfer_to_agent raises and leaves every
\* tracked spend alone when the sender or the receiver is not a member,
\* when the sender's balance as queried is below the amount, or when the
\* sender's make_payment raises; when it returns, one make_payment of the
\* amount went from the sender's wallet to the address of the receiver's
\* wallet, the sender's spend grew by the amount and no other spend moved.
C24_IndividualTransfer ==
    [][(op' = "transfer_to_agent" /\ ~shared_wallet) =>
        LET from == args'.agent_id
            to == args'.to_agent_id
            amount == args'.amount
            env == answers'
            outsider == from \notin Members \/ to \notin Members
            short == env.live.ok /\ env.live.value < amount
            unpaid == Raised(make_payment(amount, Addr(0), env.live.value,
                                          env.mp))
        IN  /\ (outsider \/ short \/ unpaid)
                  => /\ exc' # NoExc
                     /\ agent_spending' = agent_spending
            /\ exc' # NoExc
                  => /\ agent_spending' = agent_spending
                     /\ PaymentCalls(wcalls') = <<>>
                        \/ (~outsider /\ ~short /\ unpaid)
            /\ exc' = NoExc
                  => /\ ~outsider
                     /\ PaymentCalls(wcalls') =
                          <<WalletCall(wallet_manager[agents[from]],
                                       "make_payment", amount,
                                       Addr(wallet_manager[agents[to]]))>>
                     /\ hash' = OkHash(env.mp.send.ref)
                     /\ agent_spending' =
                          [agent_spending EXCEPT ![from] = @ + amount]
    ]_vars

C24_Witness ==
    /\ Transferred /\ ~shared_wallet /\ exc = NoExc
    /\ args.agent_id # args.to_agent_id
    /\ answers.live.value >= args.amount
    /\ agent_spending[args.agent_id] = args.amount
    /\ hash = OkHash("0xabc")
    /\ \E other \in Members \ {args.agent_id, args.to_agent_id} :
          agent_spending[other] > 0

\* C25 as claimed: with a shared wallet, a transfer_to_agent that returns
\* made no call on any wallet, raised the sender's spend by the amount,
\* lowered the receiver's by the amount, left every other spend and the
\* sum of all spends as they were, and returned a reference no provider
\* returns.
C25_SharedTransferMovesSpend ==
    [][(op' = "transfer_to_agent" /\ shared_wallet /\ exc' = NoExc) =>
        LET from == args'.agent_id
            to == args'.to_agent_id
            amount == args'.amount
        IN  /\ WalletCalls(wcalls') = <<>>
            /\ agent_spending'[from] = agent_spending[from] + amount
            /\ agent_spending'[to] = agent_spending[to] - amount
            /\ \A id \in Members \ {from, to} :
                  agent_spending'[id] = agent_spending[id]
            /\ DOMAIN agent_spending' = DOMAIN agent_spending
            /\ Total(agent_spending') = Total(agent_spending)
            /\ hash' = SharedTransferRef
            /\ hash'.ref \notin TxRefs
    ]_vars

\* C25 as amended: the same, for a sender and a receiver that differ; a
\* transfer of an agent to itself leaves every spend as it was.
C25_SharedTransferIsBookkeeping ==
    [][(op' = "transfer_to_agent" /\ shared_wallet /\ exc' = NoExc) =>
        LET from == args'.agent_id
            to == args'.to_agent_id
            amount == args'.amount
        IN  /\ WalletCalls(wcalls') = <<>>
            /\ agent_spending' =
                  IF from = to THEN agent_spending
                  ELSE [agent_spending EXCEPT ![from] = @ + amount,
                                              ![to] = @ - amount]
            /\ Total(agent_spending') = Total(agent_spending)
            /\ hash' = SharedTransferRef
            /\ hash'.ref \notin TxRefs
    ]_vars

C25_Witness ==
    /\ Transferred /\ shared_wallet /\ exc = NoExc
    /\ args.agent_id # args.to_agent_id
    /\ agent_spending[args.agent_id] = args.amount
    /\ agent_spending[args.to_agent_id] = 0 - args.amount
    /\ wcalls = <<AgentCall(agents[args.agent_id], "get_balance")>>
    /\ Cardinality(Members) = 3

\* --------------------------------------------------------------- C23 ----
SplitCalled == op = "split_costs"
MethodUsed == IF args.method # "" THEN args.method ELSE cost_splitting_method

\* The sum of the shares of a cost distribution.
RECURSIVE SumShares(_)
SumShares(dist) ==
    IF DOMAIN dist = {} THEN Share(0, 1)
    ELSE LET k == CHOOSE i \in DOMAIN dist : TRUE
         IN  PlusShare(dist[k], SumShares(Del(dist, k)))

\* C23: for a non-empty membership, a total cost C and a spending map
\* reached through add, remove, transfer, update_agent_spending and reset,
\* split_costs under Equal or Usage-Based returns one share per current
\* member and the shares sum to C; Equal gives each member C / n;
\* Usage-Based gives each member C * spend / total_spend, and the Equal
\* split when the total spend is zero; Manual returns an empty map.
C23_SplitSumsToCost ==
    (SplitCalled /\ Members # {}) =>
        LET C == args.amount
            n == Cardinality(Members)
            total_spend == Total(agent_spending)
            IsEqualSplit ==
                \A id \in Members : SameShare(shares[id], Share(C, n))
        IN  /\ MethodUsed \in {"equal", "usage_based"} =>
                  /\ DOMAIN shares = Members
                  /\ SameShare(SumShares(shares), Share(C, 1))
            /\ MethodUsed = "equal" => IsEqualSplit
            /\ MethodUsed = "usage_based" =>
                  IF total_spend = 0 THEN IsEqualSplit
                  ELSE \A id \in Members :
                          SameShare(shares[id],
                                    Share(C * agent_spending[id],
                                          total_spend))
            /\ MethodUsed = "manual" => shares = NoMembers

\* --------------------------------------------------------------- C26 ----
Recovered == op = "collaborate_with_recovery"
Attempts == {i \in DOMAIN steps : steps[i].ev = "attempt"}
Passes == {i \in DOMAIN steps : steps[i].ev = "recovery"}
LastAttempt == CHOOSE i \in Attempts : \A j \in Attempts : j <= i
SomeSucceeded(step) == ~step.raised /\ step.report.successful >= 1

\* C26: collaborate_with_recovery(task, N) makes at most N + 1 attempts;
\* an attempt is retried only when it raised or ended with no successful
\* member; exactly one recovery pass runs between two consecutive
\* attempts and none after the last; an attempt with a successful member
\* is returned at once, with no recovery after it.
C26_BoundedRetriesOneRecoveryEach ==
    Recovered =>
        /\ Cardinality(Attempts) <= args.retries + 1
        /\ \A i \in Attempts \ {LastAttempt} :
              steps[i].raised \/ steps[i].report.successful = 0
        /\ \A i \in Attempts \ {LastAttempt} :
              /\ i + 1 \in Passes
              /\ i + 2 \in Attempts
        /\ Attempts # {} => LastAttempt = Len(steps)
        /\ \A i \in Attempts :
              SomeSucceeded(steps[i]) =>
                  /\ i = Len(steps)
                  /\ exc = NoExc
                  /\ report = steps[i].report

\* --------------------------------------------------------------- C27 ----
GaveUp == Recovered /\ exc = NoExc /\ report.kind = "failed"
AllErrors(step) ==
    /\ ~step.raised
    /\ \A i \in DOMAIN step.report.entries :
          step.report.entries[i].result.starts_error

\* C27: when all N + 1 attempts of collaborate_with_recovery failed, by
\* raising or by every member ending in an error, the failure report it
\* returns states the number of attempts and includes the last error that
\* occurred.
C27_FailureReportHasLastError ==
    (GaveUp /\ \A i \in Attempts : steps[i].raised \/ AllErrors(steps[i]))
        => /\ Cardinality(Attempts) = args.retries + 1
           /\ report.attempts = Cardinality(Attempts)
           /\ report.last_error # <<>>

\* --------------------------------------------------------------- C28 ----
Collaborated(strategy) ==
    op = "collaborate" /\ args.strategy = strategy /\ exc = NoExc
RunsOf(id) == {i \in DOMAIN runs : runs[i].agent_id = id}
EntriesOf(id) ==
    {i \in DOMAIN report.entries : report.entries[i].agent_id = id}
Failed(id) == answers.run[id].raised
\* The entry of a member is what its run gave: the text it returned, or
\* an error marker with the message of the exception it raised.
AsItRan(entry) ==
    IF Failed(entry.agent_id)
    THEN /\ entry.result.starts_error
         /\ entry.result.text = answers.run[entry.agent_id].msg
    ELSE entry.result = answers.run[entry.agent_id].text

\* C28: in parallel collaboration every member is run exactly once on the
\* unmodified task; a member that fails gets an error marker as its
\* result and every other member still runs; the report has exactly one
\* entry per member, and its success count is the number of members
\* without an error marker.
C28_ParallelRunsEveryMember ==
    Collaborated("parallel") =>
        /\ \A id \in Members : Cardinality(RunsOf(id)) = 1
        /\ \A i \in DOMAIN runs :
              /\ runs[i].agent_id \in Members
              /\ runs[i].prompt.kind = "task"
              /\ runs[i].prompt.task = args.task
        /\ Len(report.entries) = Cardinality(Members)
        /\ \A id \in Members : Cardinality(EntriesOf(id)) = 1
        /\ \A i \in DOMAIN report.entries : AsItRan(report.entries[i])
        /\ report.successful =
              Cardinality({i \in DOMAIN report.entries :
                              ~report.entries[i].result.starts_error})

C28_Witness ==
    /\ Collaborated("parallel")
    /\ Cardinality(Members) = 3
    /\ Failed(joined[2]) /\ ~Failed(joined[1]) /\ ~Failed(joined[3])
    /\ Len(runs) = 3
    /\ report.entries[2].result.starts_error
    /\ report.successful = 2

\* --------------------------------------------------------------- C29 ----
\* C29: in sequential collaboration the members run one at a time in
\* membership order, each exactly once; the input of the k-th member
\* contains the original task and the recorded results, error markers
\* included, of the k - 1 members before it; a failure is recorded as an
\* error marker and keeps no later member from running.
C29_SequentialBuildsOnEarlier ==
    Collaborated("sequential") =>
        /\ [k \in DOMAIN runs |-> runs[k].agent_id] = joined
        /\ [k \in DOMAIN report.entries |-> report.entries[k].agent_id]
              = joined
        /\ \A k \in DOMAIN runs :
              /\ runs[k].prompt.task = args.task
              /\ runs[k].prompt.previous = SubSeq(report.entries, 1, k - 1)
        /\ \A k \in DOMAIN report.entries : AsItRan(report.entries[k])

C29_Witness ==
    /\ Collaborated("sequential")
    /\ Len(joined) = 3 /\ joined[1] > joined[2]
    /\ Failed(joined[1]) /\ ~Failed(joined[2]) /\ Failed(joined[3])
    /\ Len(runs) = 3
    /\ Len(runs[3].prompt.previous) = 2
    /\ runs[3].prompt.previous[1].result.starts_error

\* --------------------------------------------------------------- C30 ----
Sentences == Split(args.task)
Chunk(k) == runs[k].prompt.task
\* The chunk is the sentences first..last of the task, joined.
Holds(chunk, first, last) ==
    LET part == Join(SubSeq(Sentences, first, last))
    IN  chunk = part \/ chunk = Append(part, Dot)
\* The ways to cut s sentences into m runs: where each run ends.
Cuts(m, s) ==
    {c \in [0..m -> 0..s] :
        /\ c[0] = 0 /\ c[m] = s
        /\ \A j \in 1..m : c[j - 1] < c[j]}

\* C30: dividing a task of s sentences among n members gives at most n
\* chunks that are contiguous, in the original order, do not overlap and
\* together hold every sentence exactly once; when s > n there are
\* exactly n chunks, the first n - 1 of floor(s / n) sentences each and
\* the last of the rest; when there are fewer chunks than members, each
\* member beyond them is not run and gets the no-subtask marker as its
\* result.
C30_DivideCoversTaskOnce ==
    Collaborated("divide") =>
        LET s == Len(Sentences)
            n == Len(joined)
            m == Len(runs)
        IN  /\ m <= n
            /\ \E c \in Cuts(m, s) :
                  \A k \in 1..m : Holds(Chunk(k), c[k - 1] + 1, c[k])
            /\ s > n =>
                  /\ m = n
                  /\ \A k \in 1..(n - 1) :
                        Holds(Chunk(k), (k - 1) * (s \div n) + 1,
                              k * (s \div n))
                  /\ Holds(Chunk(n), (n - 1) * (s \div n) + 1, s)
            /\ \A k \in 1..m :
                  /\ runs[k].agent_id = joined[k]
                  /\ runs[k].prompt.kind = "part"
            /\ Len(report.entries) = n
            /\ \A k \in (m + 1)..n :
                  /\ RunsOf(joined[k]) = {}
                  /\ report.entries[k] = ResultEntry(joined[k], NoSubtask)

C30_Witness ==
    /\ Collaborated("divide")
    /\ Len(joined) = 3
    /\ Len(Sentences) = 5
    /\ Len(runs) = 3
    /\ Chunk(1) = <<1, Dot>>
    /\ Chunk(3) = <<3, Sep, 4, Sep, 5, Dot>>
\* ---------------------------------------------------------------- C31
\* The passes of the retry loop over payment i, in order.
PassesOf(i) == SelectSeq(tried, LAMBDA p : p.item = i)
ProviderBatchCalled == op \in {"base_batch_payments", "solana_batch_payments"}

\* C31: a provider's batch_payments leaves as an exception only when the
\* starting nonce could not be read, before any payment was tried;
\* otherwise it returns one entry per payment, in the order of the
\* payments: the reference the node gave when payment i was broadcast and
\* confirmed, or a marker starting with "FAILED" after three passes over
\* payment i none of which succeeded.  Every payment gets at least one and
\* at most three passes, whatever became of the payments before it.
C31_BatchEntryPerPayment ==
    ProviderBatchCalled =>
        IF exc # NoExc
        THEN /\ op = "base_batch_payments"
             /\ ~answers.nonce
             /\ tried = <<>>
        ELSE /\ Len(tx_hashes) = Len(payments)
             /\ \A k \in 1..Len(tried) : tried[k].item \in 1..Len(payments)
             /\ \A k \in 1..(Len(tried) - 1) :
                   tried[k].item <= tried[k + 1].item
             /\ \A i \in 1..Len(payments) :
                   LET n == Len(PassesOf(i))
                   IN  /\ n \in 1..batch_max_retries
                       /\ IF tx_hashes[i].failed
                          THEN /\ n = batch_max_retries
                               /\ op = "base_batch_payments"
                                     => \A k \in 1..n : ~PassesOf(i)[k].sent
                          ELSE /\ HashSucceeded(tx_hashes[i])
                               /\ PassesOf(i)[n].sent
                               /\ answers.outs[i][n].confirmed
                               /\ tx_hashes[i].ref = answers.outs[i][n].ref

\* The first payment failed on each of its three passes and the second
\* was then broadcast on its second pass.
C31_Witness ==
    /\ op = "base_batch_payments"
    /\ exc = NoExc
    /\ Len(payments) = 2
    /\ tx_hashes[1].failed
    /\ is_address(payments[1].recipient) /\ payments[1].amount > 0
    /\ HashSucceeded(tx_hashes[2])
    /\ Len(PassesOf(1)) = 3
    /\ Len(PassesOf(2)) = 2

Broadcasts == {k \in 1..Len(tried) : tried[k].sent}

\* C39: one BaseNetworkProvider.send_payment call broadcasts at most one
\* transfer, whatever happens after the broadcast; it makes at most three
\* passes, and none at all when the recipient or the amount is invalid,
\* which raises ValueError.
C39_OneBroadcastPerPayment ==
    op = "send_payment" =>
        /\ Cardinality(Broadcasts) <= 1
        /\ Len(tried) <= send_max_retries
        /\ (~is_address(args.recipient) \/ args.amount <= 0)
              => (tried = <<>> /\ exc.type = "ValueError")

\* ---------------------------------------------------------------- C33
\* Payer p lost the race to payer q: both calls are over, p passed both
\* balance checks and its send met a balance that no longer covered its
\* amount, and q's payment went through.
LostRace(p, q) ==
    /\ p # q
    /\ pc[p] = "done" /\ pc[q] = "done"
    /\ paying[p].short
    /\ paying[p].seen >= paying[p].amount
    /\ paying[q].exc = NoExc /\ HashSucceeded(paying[q].hash)
    /\ paying[q].seen = paying[p].seen
    /\ paying[p].seen < paying[p].amount + paying[q].amount

\* C33: the wallet's balance is never negative, and a payer whose send
\* failed at the provider because a concurrent payer spent the funds
\* between its check and its send gets an insufficient-funds error.
C33_RaceLoserToldFundsShort ==
    /\ balance >= 0
    /\ \A p \in Payers, q \in Payers :
          LostRace(p, q) => paying[p].exc.type = "InsufficientFundsError"

\* The race happens: both passed the checks and one of the sends failed.
C33_RaceHappens == \E p \in Payers, q \in Payers : LostRace(p, q)

\* ---------------------------------------------------------------- C34
\* A make_payment or batch_payments call that got as far as its balance
\* check, what it needed, and what it did with the provider.
BalanceLoopRan ==
    \/ op = "make_payment" /\ args.amount > 0
    \/ BatchCall /\ payments # <<>> /\ AllEntriesValid
Needed == IF BatchCall THEN SumAmounts(payments) ELSE args.amount
Sends == Count(pcalls, "send_payment") + Count(pcalls, "batch_payments")
\* The balance queries made before anything else was asked of the provider.
QueriesFirst ==
    Cardinality({i \in DOMAIN pcalls :
                    \A j \in 1..i : pcalls[j] = "get_balance"})

\* C34: make_payment and batch_payments query the balance at most three
\* times before they send: they stop at the first query that answers and
\* decide with its answer whether the funds cover what is needed; when
\* three queries in a row fail they raise the failed-to-check-balance
\* RuntimeError and nothing is sent.
C34_BalanceCheckedUpToThreeTimes ==
    BalanceLoopRan =>
        /\ QueriesFirst \in 1..max_balance_retries
        /\ IF \E i \in DOMAIN answers.balq : answers.balq[i].ok
           THEN /\ QueriesFirst = FirstAnswerAt(answers.balq)
                /\ preBalance < Needed
                      => /\ exc = InsufficientBalance(preBalance, Needed)
                         /\ Sends = 0 /\ balance = preBalance
                /\ preBalance >= Needed => Sends = 1
           ELSE /\ QueriesFirst = max_balance_retries
                /\ Len(pcalls) = max_balance_retries
                /\ exc.type = "RuntimeError" /\ "balance" \in exc.msg
                /\ Sends = 0 /\ balance = preBalance

\* Two balance queries failed, the third answered, and the payment went
\* out.
C34_Witness ==
    /\ op = "make_payment"
    /\ ~answers.balq[1].ok /\ ~answers.balq[2].ok /\ answers.balq[3].ok
    /\ pcalls = <<"get_balance", "get_balance", "get_balance",
                  "send_payment">>
    /\ exc = NoExc /\ balance = preBalance - args.amount

C36_QueueBelowThreshold ==
    [][/\ (op' = "add_deferred" /\ exc' = NoExc)
            => Len(deferred_payments') < payment_threshold
       /\ (/\ Len(deferred_payments) < payment_threshold
           /\ Len(deferred_payments') >= payment_threshold)
            => /\ op' = "add_deferred"
               /\ flushes' = 1
               /\ exc' # NoExc]_vars

\* An add that returned although the queue it was called on had already
\* reached the threshold: its flush went through and emptied the queue.
C36_Witness ==
    /\ op = "add_deferred" /\ exc = NoExc
    /\ Len(preQueue) >= payment_threshold
    /\ flushes = 1
    /\ deferred_payments = <<>>

RECURSIVE AtPositions(_, _, _)
AtPositions(q, K, i) ==
    IF i > Len(q) THEN <<>>
    ELSE (IF i \in K THEN <<q[i]>> ELSE <<>>) \o AtPositions(q, K, i + 1)

\* The flush of the last call got a transaction reference for the i-th
\* payment, from its batch position or from its individual retry: that
\* is what its Payment object carries as tx_hash.
Settled(i) ==
    /\ i \in DOMAIN payments
    /\ HashSucceeded(payments[i].tx_hash)

\* The flush of the last call left the i-th payment marked as failed.
ReportedFailed(i) == i \in DOMAIN payments /\ payments[i].status = "failed"

\* C38: when a flush has ended, by returning or by raising, the queue
\* holds the flushed payments of some set of positions, in order, that
\* contains no position the flush settled and every position the flush
\* neither settled nor marked as failed.
C38_SettledNeverRequeued ==
    (op \in {"flush", "add_deferred"} /\ flushes = 1)
    => \E K \in SUBSET (1..Len(FlushQueue)) :
          /\ deferred_payments = AtPositions(FlushQueue, K, 1)
          /\ \A i \in 1..Len(FlushQueue) :
                /\ Settled(i) => i \notin K
                /\ (~Settled(i) /\ ~ReportedFailed(i)) => i \in K

\* A flush whose batch settled one payment and marked another as failed,
\* whose individual retry then settled that one too.
C38_Witness ==
    /\ op = "flush" /\ BatchReturned
    /\ SomeMarkedFailed /\ SomeMarkedOk
    /\ \A i \in 1..Len(preQueue) :
          Settled(i) /\ payments[i].status = "completed"
    /\ Len(CallItems(wcalls, "make_payment")) >= 1
    /\ deferred_payments = <<>>

\* ---------------------------------------------------------------- C40
\* A share that lies between 0 and the total cost C.
WithinCost(share, C) ==
    /\ share.d > 0
    /\ 0 <= share.n
    /\ share.n <= C * share.d

====
